---- MODULE Spec2Model ----
(***************************************************************************)
(* A model of LiMe: the fitting workflow (src/src/lime/workflow.py), the    *)
(* Spectrum and Cube objects (src/src/lime/treatment.py) and the band      *)
(* editor (src/src/lime/plots_interactive.py).                             *)
(*                                                                         *)
(*  - Spec     : CubeTreatment.spatial_mask, one action per pass of its    *)
(*               loops, with the process being killed between passes.      *)
(*  - SpecConf : the fit configuration spatial_mask and frame hand to band *)
(*               for one voxel.                                            *)
(*  - SpecKin  : import_line_kinematics on one line.                       *)
(*  - SpecAttr : the construction of a Spectrum or Cube, its unit          *)
(*               conversion and redshift update.                           *)
(*  - SpecCont : SpecTreatment.continuum.                                  *)
(*  - SpecBand : SpecTreatment.band on one spectrum.                       *)
(*  - SpecLog  : band, frame and the voxels of spatial_mask on the logs.   *)
(*  - SpecMasking : Cube.spatial_masking.                                  *)
(*  - SpecEditor  : the callbacks of BandsInspection.                      *)
(***************************************************************************)
EXTENDS Integers, Sequences, FiniteSets, TLC

\* ------------------------------------------------------------------ bounds
\* Largest checkpoint interval (n_save) given to spatial_mask.
MaxNSave == 2
\* Largest number of spatial masks in the mask file.
MaxMasks == 2
\* Largest number of components of a blended or merged line.
MaxComps == 2
\* Spatial shape (rows, columns) of the cube the masks select from.
CubeShape == <<2, 2>>

\* --------------------------------------------------------------- variables
VARIABLES
    pc,                  \* position of the spatial_mask call
    error,               \* the exception that left spatial_mask, "none" if none
    cube_has_get_spaxel, \* whether the cube object provides get_spaxel
    output_log,          \* argument output_log
    bands_frame,         \* argument bands_frame
    line_detection,      \* argument line_detection
    fit_conf,            \* argument fit_conf: its '<mask>_line_detection' sections
    n_save,              \* argument n_save
    mask_list,           \* names of the masks, in the order of the mask file
    mask_data_list,      \* the boolean arrays of the masks, in the same order
    spaxels_dict,        \* per mask, the coordinates np.argwhere returned
    i,                   \* index of the mask being processed (from 0)
    j,                   \* index of the next voxel of that mask (from 0)
    spax_counter,        \* the checkpoint counter
    hdul_log,            \* the container in memory: names of its extensions
    disk,                \* the container file: <<>> when there is no file
    processed,           \* <<mask index, row, col>> of the voxels whose pipeline returned
    \* -- the configuration of one voxel (SpecConf)
    cfg_pc,              \* "off", "call" or "resolved"
    cfg_fit_conf,        \* argument fit_conf: section name -> section
    cfg_mask_name,       \* name of the mask the voxel is in
    cfg_coord,           \* <<row, col>> of the voxel
    input_conf,          \* the configuration frame hands to band
    \* -- import_line_kinematics (SpecKin)
    kin_pc,              \* "off", "call", "returned" or "raised"
    kin_error,           \* the exception raised, "none" if none
    line,                \* the Line: label, profile_label, blended_check
    line_fit_conf,       \* line._fit_conf
    user_fit_conf,       \* line._fit_conf as it was when the call started
    log,                 \* the Log of the spectrum: label -> row
    z_cor,               \* 1 + redshift, as <<numerator, denominator>>
    \* -- a Spectrum or Cube object and the calls made on it (SpecAttr)
    sp_pc,               \* "off", "new" (arguments chosen), "built" or "raised"
    sp_error,            \* the exception the last call raised, "none" if none
    lime_object,         \* "Spectrum" or "Cube"
    args,                \* the arguments of __init__
    spec_wave,           \* .wave      (the data of the array)
    spec_wave_rest,      \* .wave_rest (the data of the array)
    spec_flux,           \* .flux      (the data of the array)
    spec_err_flux,       \* .err_flux  (the data of the array)
    spec_mask,           \* the mask of the masked arrays, NoMask for plain arrays
    spec_redshift,       \* .redshift
    spec_norm_flux,      \* .norm_flux
    spec_units_wave,     \* .units_wave
    given,               \* the last redshift and norm_flux given, a conversion made
    n_calls,             \* calls made on the object since its construction
    \* -- SpecTreatment.continuum (SpecCont)
    cont_pc,             \* "off", "call", "returned" or "raised"
    cont_error,          \* the exception raised, "none" if none
    degree_list,         \* argument degree_list
    threshold_list,      \* argument threshold_list
    plot_steps,          \* argument plot_steps
    spec_cont,           \* .cont: None, all NaN, or the polynomial evaluated
    spec_cont_std,       \* .cont_std
    cont_samples,        \* the number of samples each iteration fitted
    cont_masks,          \* mask_cont of each iteration: at its start, after its
                         \* percentile limits, and as given to its fit
    \* -- band, frame and the voxel pass of spatial_mask (SpecBand, SpecLog)
    band_pc,             \* "off" or "ready"
    band_error,          \* the exception the last call raised, "none" if none
    bands_df,            \* the band table: label -> band edges and pixel_mask
    spec_log,            \* .log of the Spectrum: its rows, in order
    band_line,           \* .fit.line: the line of the last band call
    band_out,            \* idcsEmis, idcsCont, idcsLine of the last band call
    spaxel_log,          \* the log of the voxel spectrum of the last pass
    spaxel_coord,        \* <<idx_j, idx_i>> of the voxel of the last pass
    calls_left,          \* calls still to be made
    n_written,           \* rows written to the logs by the calls so far
    \* -- Cube.spatial_masking (SpecMasking)
    sm_pc,               \* "off", "call", "returned" or "raised"
    sm_error,            \* the exception raised, "none" if none
    param,               \* argument param
    contour_pctls,       \* argument contour_pctls
    output_address,      \* argument output_address: "None", "ok" or "no_folder"
    param_image,         \* the image the masks are cut from, and how it was computed
    mask_hdul,           \* the container of the masks: the names and the masks
    mask_file,           \* the mask file: <<>> when there is no file
    fig_open,            \* whether the figure of the band editor is open
    bi_error,            \* the exception of the last callback, "none" if none
    self_rest_frame,     \* BandsInspection._rest_frame
    self_redshift,       \* BandsInspection._spec.redshift
    self_log_address,    \* BandsInspection._log_address: "None" or "file"
    self_log,            \* BandsInspection.log: the rows, each a label and w1..w6
    self_activeLines,    \* BandsInspection._activeLines
    self_lineList,       \* BandsInspection._lineList
    self_line,           \* BandsInspection.line
    self_mask,           \* BandsInspection.mask
    self_ax,             \* BandsInspection._ax: the cell, 0 before any is entered
    self_idx_ax,         \* BandsInspection._idx_ax: the positions np.where found
    ax_titles,           \* the title of each cell of the grid
    log_file,            \* the file at _log_address
    n_events             \* the selections and clicks handled so far

runVars == <<pc, error, cube_has_get_spaxel, output_log, bands_frame, line_detection,
             fit_conf, n_save, mask_list, mask_data_list, spaxels_dict, i, j,
             spax_counter, hdul_log, disk, processed>>
cfgVars == <<cfg_pc, cfg_fit_conf, cfg_mask_name, cfg_coord, input_conf>>
kinVars == <<kin_pc, kin_error, line, line_fit_conf, user_fit_conf, log, z_cor>>

attrVars == <<sp_pc, sp_error, lime_object, args, spec_wave, spec_wave_rest, spec_flux,
              spec_err_flux, spec_mask, spec_redshift, spec_norm_flux, spec_units_wave,
              given, n_calls>>
contVars == <<cont_pc, cont_error, degree_list, threshold_list, plot_steps, spec_cont,
              spec_cont_std, cont_samples, cont_masks>>
bandVars == <<band_pc, band_error, bands_df, spec_log, band_line, band_out, spaxel_log,
              spaxel_coord, calls_left, n_written>>
smVars == <<sm_pc, sm_error, param, contour_pctls, output_address, param_image, mask_hdul,
            mask_file>>
biVars == <<fig_open, bi_error, self_rest_frame, self_redshift, self_log_address, self_log,
            self_activeLines, self_lineList, self_line, self_mask, self_ax, self_idx_ax,
            ax_titles, log_file, n_events>>
toolVars == <<smVars, biVars>>
extVars == <<attrVars, contVars, bandVars, toolVars>>

vars == <<runVars, cfgVars, kinVars, extVars>>

\* ------------------------------------------------------- the inputs' shapes
Rows == 0 .. (CubeShape[1] - 1)
Cols == 0 .. (CubeShape[2] - 1)
Coords == Rows \X Cols

\* A spatial mask: a boolean 2D array over the cube's spatial axes.
SpatialMasks == [Coords -> BOOLEAN]

\* The keys of the mask dictionary read from the mask file.
MaskName(k) == "MASK_" \o ToString(k)
MaskNames(n) == [k \in 1 .. n |-> MaskName(k - 1)]

\* fit_conf.get('<mask>_line_detection'): "absent" when there is no such section,
\* "no_input_log" for a section without 'input_log', "input_log" for one with it.
DetectionKey(mask_name) == mask_name \o "_line_detection"
DetectionKeys == {DetectionKey(MaskName(k)) : k \in 0 .. (MaxMasks - 1)}
DetectionSections == {"absent", "no_input_log", "input_log"}

log_ext_suffix == "_LINESLOG"

\* ------------------------------------------------------------ pure helpers
\* np.argwhere on a 2D array: the coordinates of its true cells in C (row-major)
\* order.
RowMajor ==
    [k \in 1 .. (CubeShape[1] * CubeShape[2]) |->
        <<(k - 1) \div CubeShape[2], (k - 1) % CubeShape[2]>>]

ColMajor ==
    [k \in 1 .. (CubeShape[1] * CubeShape[2]) |->
        <<(k - 1) % CubeShape[1], (k - 1) \div CubeShape[1]>>]

ArgWhereColMajor(spa_mask) == SelectSeq(ColMajor, LAMBDA p : spa_mask[p])

ArgWhere(spa_mask) == SelectSeq(RowMajor, LAMBDA p : spa_mask[p])

\* spaxel_label = f'{idx_j}-{idx_i}'
SpaxelLabel(coord) == ToString(coord[1]) \o "-" \o ToString(coord[2])

\* ext_name = f'{spaxel_label}{log_ext_suffix}'
ExtNameColRow(coord) == ToString(coord[2]) \o "-" \o ToString(coord[1]) \o log_ext_suffix

ExtName(coord) == SpaxelLabel(coord) \o log_ext_suffix

\* fits.HDUList([fits.PrimaryHDU()])
NewHDUList == <<"PRIMARY">>

\* The voxel extensions of a container (all but its primary HDU); none when
\* there is no file.
VoxelExts(hdul) == IF hdul = <<>> THEN <<>> ELSE Tail(hdul)

\* The checkpoint test of the voxel loop: the counter counts up while it is
\* under n_save, and the pass that finds it at n_save resets it and saves.
SaveNowOnePassLate(counter, n) == ~(counter <= n)

SaveNow(counter, n) == ~(counter < n)

NextCounter(counter, n) == IF SaveNow(counter, n) THEN 0 ELSE counter + 1

\* The input checks of spatial_mask, in the order of the code: the name of the
\* first check that raises Error, "ok" when none does.
RECURSIVE MissingInputLog(_, _)
MissingInputLog(names, conf) ==
    IF names = <<>> THEN FALSE
    ELSE IF conf[DetectionKey(Head(names))] # "input_log" THEN TRUE
    ELSE MissingInputLog(Tail(names), conf)

InputCheckNoOutput(names, bands, conf, out) ==
    IF bands = "None" /\ MissingInputLog(names, conf) THEN "no_input_log" ELSE "ok"

InputCheck(names, bands, conf, out) ==
    IF bands = "None" /\ MissingInputLog(names, conf) THEN "no_input_log"
    ELSE IF out = "None" THEN "no_output_log"
    ELSE IF out = "no_folder" THEN "no_output_folder"
    ELSE "ok"

\* ----------------------------------------------------------------- Init
\* The parts of the state a specification does not use.
RunOff ==
    /\ pc = "off"
    /\ error = "none"
    /\ cube_has_get_spaxel = FALSE
    /\ output_log = "None"
    /\ bands_frame = "None"
    /\ line_detection = FALSE
    /\ fit_conf = <<>>
    /\ n_save = 0
    /\ mask_list = <<>>
    /\ mask_data_list = <<>>
    /\ spaxels_dict = <<>>
    /\ i = 0
    /\ j = 0
    /\ spax_counter = 0
    /\ hdul_log = <<>>
    /\ disk = <<>>
    /\ processed = <<>>

CfgOff ==
    /\ cfg_pc = "off"
    /\ cfg_fit_conf = <<>>
    /\ cfg_mask_name = ""
    /\ cfg_coord = <<0, 0>>
    /\ input_conf = <<>>

KinOff ==
    /\ kin_pc = "off"
    /\ kin_error = "none"
    /\ line = <<>>
    /\ line_fit_conf = <<>>
    /\ user_fit_conf = <<>>
    /\ log = <<>>
    /\ z_cor = <<1, 1>>

\* No array, no mask.
None == [kind |-> "None"]
NoMask == <<>>

AttrOff ==
    /\ sp_pc = "off"
    /\ sp_error = "none"
    /\ lime_object = "Spectrum"
    /\ args = <<>>
    /\ spec_wave = None
    /\ spec_wave_rest = None
    /\ spec_flux = None
    /\ spec_err_flux = None
    /\ spec_mask = NoMask
    /\ spec_redshift = <<0, 1>>
    /\ spec_norm_flux = <<1, 1>>
    /\ spec_units_wave = "A"
    /\ given = <<>>
    /\ n_calls = 0

\* continuum not called.
ContOff ==
    /\ cont_pc = "off"
    /\ cont_error = "none"
    /\ degree_list = <<>>
    /\ threshold_list = <<>>
    /\ plot_steps = FALSE
    /\ spec_cont = None
    /\ spec_cont_std = None
    /\ cont_samples = <<>>
    /\ cont_masks = <<>>

\* No line measured, no index arrays.
NoLine == <<>>
NoOut == <<>>

\* band not called.
BandOff ==
    /\ band_pc = "off"
    /\ band_error = "none"
    /\ bands_df = <<>>
    /\ spec_log = <<>>
    /\ band_line = NoLine
    /\ band_out = NoOut
    /\ spaxel_log = <<>>
    /\ spaxel_coord = <<0, 0>>
    /\ calls_left = 0
    /\ n_written = 0

\* spatial_masking not called.
SmOff ==
    /\ sm_pc = "off"
    /\ sm_error = "none"
    /\ param = "flux"
    /\ contour_pctls = <<>>
    /\ output_address = "None"
    /\ param_image = None
    /\ mask_hdul = <<>>
    /\ mask_file = <<>>

NoLabel == [name |-> "", suffix |-> ""]
NoFile == [exists |-> FALSE, rows |-> <<>>]

\* The band editor not opened.
BiOff ==
    /\ fig_open = FALSE
    /\ bi_error = "none"
    /\ self_rest_frame = TRUE
    /\ self_redshift = <<0, 1>>
    /\ self_log_address = "None"
    /\ self_log = <<>>
    /\ self_activeLines = <<>>
    /\ self_lineList = <<>>
    /\ self_line = NoLabel
    /\ self_mask = <<>>
    /\ self_ax = 0
    /\ self_idx_ax = {}
    /\ ax_titles = <<>>
    /\ log_file = NoFile
    /\ n_events = 0

ToolOff == SmOff /\ BiOff

ExtOff == AttrOff /\ ContOff /\ BandOff /\ ToolOff

Init ==
    /\ pc = "call"
    /\ error = "none"
    /\ cube_has_get_spaxel \in BOOLEAN
    /\ output_log \in {"None", "no_folder", "ok"}
    /\ bands_frame \in {"None", "df"}
    /\ line_detection \in BOOLEAN
    /\ fit_conf \in [DetectionKeys -> DetectionSections]
    \* a band table given makes the detection sections and the flag irrelevant
    \* to the orchestrator: they are varied only without one
    /\ bands_frame = "df" =>
          /\ line_detection = FALSE
          /\ \A k \in DetectionKeys : fit_conf[k] = "absent"
    /\ n_save \in 0 .. MaxNSave
    /\ mask_list = <<>>
    /\ mask_data_list = <<>>
    /\ spaxels_dict = <<>>
    /\ i = 0
    /\ j = 0
    /\ spax_counter = 0
    /\ hdul_log = <<>>
    /\ disk = <<>>
    /\ processed = <<>>
    /\ CfgOff
    /\ KinOff
    /\ ExtOff

\* ----------------------------------------------------------------- actions
inputs == <<cube_has_get_spaxel, output_log, bands_frame, line_detection, fit_conf, n_save>>
masks == <<mask_list, mask_data_list, spaxels_dict>>

\* spatial_mask up to its first mask: the mask file is read, the inputs are
\* checked, the voxels of every mask are listed, the counter and the container
\* are created.
CallRaisesError ==
    /\ pc = "call"
    /\ \E n \in 1 .. MaxMasks :
          InputCheck(MaskNames(n), bands_frame, fit_conf, output_log) # "ok"
    /\ pc' = "error"
    /\ error' = "Error"
    /\ UNCHANGED <<cfgVars, kinVars, extVars, inputs, masks, i, j, spax_counter, hdul_log, disk, processed>>

\* detect_conf is None without line detection, and detect_conf['input_log'] of
\* the first mask raises TypeError.
CallRaisesTypeError ==
    /\ pc = "call"
    /\ \E n \in 1 .. MaxMasks :
          InputCheck(MaskNames(n), bands_frame, fit_conf, output_log) = "ok"
    /\ bands_frame = "None"
    /\ ~line_detection
    /\ pc' = "raised"
    /\ error' = "TypeError"
    /\ UNCHANGED <<cfgVars, kinVars, extVars, inputs, masks, i, j, spax_counter, hdul_log, disk, processed>>

CallStarts ==
    /\ pc = "call"
    /\ ~(bands_frame = "None" /\ ~line_detection)
    /\ \E n \in 1 .. MaxMasks :
       \E mask_data \in [1 .. n -> SpatialMasks] :
          /\ InputCheck(MaskNames(n), bands_frame, fit_conf, output_log) = "ok"
          /\ mask_list' = MaskNames(n)
          /\ mask_data_list' = mask_data
          /\ spaxels_dict' = [k \in 1 .. n |-> ArgWhere(mask_data[k])]
    /\ spax_counter' = 0
    /\ hdul_log' = NewHDUList
    /\ i' = 0
    /\ j' = 0
    /\ pc' = "loop"
    /\ UNCHANGED <<cfgVars, kinVars, extVars, inputs, error, disk, processed>>

\* One pass of the voxel loop: the voxel's spectrum is taken from the cube, the
\* pipeline (frame) runs on it, its log is appended to the container, and the
\* checkpoint counter decides on a save.
VoxelNoGetSpaxel ==
    /\ pc = "loop"
    /\ j < Len(spaxels_dict[i + 1])
    /\ ~cube_has_get_spaxel
    /\ pc' = "raised"
    /\ error' = "AttributeError"
    /\ UNCHANGED <<cfgVars, kinVars, extVars, inputs, masks, i, j, spax_counter, hdul_log, disk, processed>>

VoxelPipelineRaises ==
    /\ pc = "loop"
    /\ j < Len(spaxels_dict[i + 1])
    /\ cube_has_get_spaxel
    /\ pc' = "raised"
    /\ error' = "pipeline"
    /\ UNCHANGED <<cfgVars, kinVars, extVars, inputs, masks, i, j, spax_counter, hdul_log, disk, processed>>

Voxel ==
    /\ pc = "loop"
    /\ j < Len(spaxels_dict[i + 1])
    /\ cube_has_get_spaxel
    /\ LET coord == spaxels_dict[i + 1][j + 1]
           appended == Append(hdul_log, ExtName(coord))
       IN /\ hdul_log' = appended
          /\ processed' = Append(processed, <<i, coord[1], coord[2]>>)
          /\ disk' = IF SaveNow(spax_counter, n_save) THEN appended ELSE disk
    /\ spax_counter' = NextCounter(spax_counter, n_save)
    /\ j' = j + 1
    /\ UNCHANGED <<cfgVars, kinVars, extVars, inputs, masks, pc, error, i>>

\* The end of a mask: the container is saved, whatever the counter, and the
\* next mask starts (or the call returns).
MaskEndSkipSave(hdul, old) == old

\* The same writing only the extensions added since the file was written.
MaskEndSaveNewOnly(hdul, old) ==
    IF old = <<>> THEN hdul ELSE <<hdul[1]>> \o SubSeq(hdul, Len(old) + 1, Len(hdul))

MaskEndSave(hdul, old) == hdul

MaskEnd ==
    /\ pc = "loop"
    /\ j = Len(spaxels_dict[i + 1])
    /\ disk' = MaskEndSave(hdul_log, disk)
    /\ IF i + 1 < Len(mask_list)
       THEN /\ i' = i + 1
            /\ j' = 0
            /\ pc' = "loop"
       ELSE /\ pc' = "done"
            /\ UNCHANGED <<i, j>>
    /\ UNCHANGED <<cfgVars, kinVars, extVars, inputs, masks, error, spax_counter, hdul_log, processed>>

\* The process is killed between two passes: the file stays as it is.
Interrupt ==
    /\ pc = "loop"
    /\ pc' = "interrupted"
    /\ UNCHANGED <<cfgVars, kinVars, extVars, inputs, masks, error, i, j, spax_counter, hdul_log, disk, processed>>

Next ==
    \/ CallRaisesError
    \/ CallRaisesTypeError
    \/ CallStarts
    \/ VoxelNoGetSpaxel
    \/ VoxelPipelineRaises
    \/ Voxel
    \/ MaskEnd
    \/ Interrupt

Spec == Init /\ [][Next]_vars

\* ======================================================================
\* The fit configuration of one voxel (specification SpecConf)
\* ======================================================================
\* dict.get(key, default)
Get(dict, key, default) == IF key \in DOMAIN dict THEN dict[key] ELSE default

\* {**d, **u}, d.update(u)
Merge(d, u) == [k \in DOMAIN d \cup DOMAIN u |-> IF k \in DOMAIN u THEN u[k] ELSE d[k]]

LineFittingKey(name) == name \o "_line_fitting"

\* A section of the configuration: parameter name -> value.
Sections ==
    {[p \in {"O3_5007A_kinem"} |-> "O3_4959A"],
     [p \in {"O3_5007A_kinem"} |-> "H1_4861A"]}

\* The '_line_fitting' sections a configuration may hold: one per voxel, one
\* per mask, and the default one.
SectionKeys ==
    {LineFittingKey(SpaxelLabel(c)) : c \in Coords}
    \cup {LineFittingKey(MaskName(k)) : k \in 0 .. (MaxMasks - 1)}
    \cup {"default_line_fitting"}

FitConfs == UNION {[keys -> Sections] : keys \in SUBSET SectionKeys}

\* mask_conf = fit_conf.get(f'{mask_name}_line_fitting', fit_conf)
MaskConf(conf, mask_name) == Get(conf, LineFittingKey(mask_name), conf)

\* spaxel_conf = fit_conf.get(f'{spaxel_label}_line_fitting', mask_conf)
SpaxelConfMaskFirst(conf, mask_name, coord) ==
    Get(conf, LineFittingKey(mask_name),
        Get(conf, LineFittingKey(SpaxelLabel(coord)), conf))

SpaxelConf(conf, mask_name, coord) ==
    Get(conf, LineFittingKey(SpaxelLabel(coord)), MaskConf(conf, mask_name))

\* frame: the configuration handed to band. obj_ref is "None" when frame is
\* called without one, as spatial_mask does.
FrameInputConf(conf, obj_ref, key_line_conf) ==
    IF obj_ref = "None" THEN conf
    ELSE Merge(Get(conf, key_line_conf, <<>>),
               Get(conf, LineFittingKey(obj_ref), <<>>))

InitConf ==
    /\ ExtOff
    /\ RunOff
    /\ KinOff
    /\ cfg_pc = "call"
    /\ cfg_fit_conf \in FitConfs
    /\ cfg_mask_name \in {MaskName(k) : k \in 0 .. (MaxMasks - 1)}
    /\ cfg_coord \in Coords
    /\ input_conf = <<>>

\* The configuration of one pass of the voxel loop, as band gets it.
ResolveConf ==
    /\ cfg_pc = "call"
    /\ input_conf' = FrameInputConf(SpaxelConf(cfg_fit_conf, cfg_mask_name, cfg_coord),
                                    "None", "default_line_fitting")
    /\ cfg_pc' = "resolved"
    /\ UNCHANGED <<runVars, kinVars, extVars, cfg_fit_conf, cfg_mask_name, cfg_coord>>

NextConf == ResolveConf

SpecConf == InitConf /\ [][NextConf]_vars

\* ======================================================================
\* import_line_kinematics (specification SpecKin)
\* ======================================================================
\* The line labels of the model and the theoretical wavelength
\* label_decomposition reads from each.
Labels == {"H1_6563A", "N2_6584A", "N2_6548A"}

WTheo(label) ==
    CASE label = "H1_6563A" -> 6563
      [] label = "N2_6584A" -> 6584
      [] label = "N2_6548A" -> 6548

\* The row an earlier band call left in the Log for a line.
LogRow(label) ==
    [center |-> WTheo(label) + 10, center_err |-> 2,
     sigma |-> 3 + (WTheo(label) % 3), sigma_err |-> 1]

\* The component lists of blended and merged lines: sequences of distinct
\* labels, 2 to MaxComps long.
CompLists ==
    {c \in UNION {[1 .. n -> Labels] : n \in 2 .. MaxComps} :
        \A a \in 1 .. Len(c) : \A b \in 1 .. Len(c) : a # b => c[a] # c[b]}

\* The lines band may build: a single line (profile_label 'no'), a blended
\* line and a merged one (both with a profile_label 'A-B...', given here as the
\* list its split('-') returns).
Lines ==
    {[label |-> l, profile_label |-> <<"no">>, blended_check |-> FALSE] : l \in Labels}
    \cup {[label |-> c[1] \o "_b", profile_label |-> c, blended_check |-> TRUE] :
            c \in CompLists}
    \cup {[label |-> c[1] \o "_m", profile_label |-> c, blended_check |-> FALSE] :
            c \in CompLists}

KinemKey(child_label) == child_label \o "_kinem"
ParamKey(child_label, param_ext) == child_label \o "_" \o param_ext
ErrKey(child_label, param_ext) == ParamKey(child_label, param_ext) \o "_err"

\* dict[key] = value
Put(dict, key, value) ==
    [k \in DOMAIN dict \cup {key} |-> IF k = key THEN value ELSE dict[k]]

\* childs_list
ChildsList(ln) ==
    IF ln.profile_label # <<"no">> THEN ln.profile_label ELSE <<ln.label>>

InList(x, list) == \E k \in 1 .. Len(list) : list[k] = x

\* f'{wtheo_child / wtheo_parent:0.8f}': the ratio rounded to 8 decimals
\* (to nearest, a tie to the even digit), as the integer ratio * 10^8; long
\* division, four decimals at a time.
Ratio8(num, den) ==
    LET int_part == num \div den
        rem0 == num % den
        dec1 == (rem0 * 10000) \div den
        rem1 == (rem0 * 10000) % den
        dec2 == (rem1 * 10000) \div den
        rem2 == (rem1 * 10000) % den
        floor8 == int_part * 100000000 + dec1 * 10000 + dec2
    IN  IF 2 * rem2 > den \/ (2 * rem2 = den /\ floor8 % 2 = 1)
        THEN floor8 + 1
        ELSE floor8

ExprCoefInverted(wtheo_child, wtheo_parent) == Ratio8(wtheo_parent, wtheo_child)

ExprCoef(wtheo_child, wtheo_parent) == Ratio8(wtheo_child, wtheo_parent)

\* {'expr': f'{ratio:0.8f}*{parent_label}_{param_ext}'}
SiblingTie(child_label, parent_label, param_ext) ==
    [expr |-> <<ExprCoef(WTheo(child_label), WTheo(parent_label)),
                ParamKey(parent_label, param_ext)>>]

\* The same with the sigma divided by z_cor as well.
ExternalValueAllRedshift(child_label, parent_label, param_ext, lg, zc, field) ==
    <<WTheo(child_label) * lg[parent_label][field] * zc[2],
      WTheo(parent_label) * zc[1]>>

\* wtheo_child / wtheo_parent * (mu_parent / z_cor) and
\* wtheo_child / wtheo_parent * sigma_parent, for the value and for its error,
\* as exact fractions <<numerator, denominator>>.
ExternalValue(child_label, parent_label, param_ext, lg, zc, field) ==
    IF param_ext = "center"
    THEN <<WTheo(child_label) * lg[parent_label][field] * zc[2],
           WTheo(parent_label) * zc[1]>>
    ELSE <<WTheo(child_label) * lg[parent_label][field], WTheo(parent_label)>>

\* One parameter ('center' or 'sigma') of one child with a '_kinem' entry.
ImportParam(conf, child_label, parent_label, param_ext, childs, lg, zc) ==
    IF InList(parent_label, childs)
    THEN Put(conf, ParamKey(child_label, param_ext),
             SiblingTie(child_label, parent_label, param_ext))
    ELSE Put(Put(conf, ParamKey(child_label, param_ext),
                 [value |-> ExternalValue(child_label, parent_label, param_ext,
                                          lg, zc, param_ext),
                  vary |-> FALSE]),
             ErrKey(child_label, param_ext),
             ExternalValue(child_label, parent_label, param_ext, lg, zc,
                           param_ext \o "_err"))

\* Whether the parent's kinematics are left uncopied, with a message.
SkipsTie(parent_label, lg, ln) ==
    parent_label \notin DOMAIN lg /\ ~ln.blended_check

\* The loop over childs_list: the configuration it leaves, and the exception
\* that ended it ("none" if it ran to its end). log.loc[parent_label] raises
\* KeyError for a label that is not in the Log.
RECURSIVE ImportLoop(_, _, _, _, _)
ImportLoop(todo, conf, ln, lg, zc) ==
    IF todo = <<>> THEN [conf |-> conf, raised |-> "none"]
    ELSE
        LET child_label == Head(todo)
            parent_label == Get(conf, KinemKey(child_label), "None")
            childs == ChildsList(ln)
        IN  IF parent_label = "None" \/ SkipsTie(parent_label, lg, ln)
            THEN ImportLoop(Tail(todo), conf, ln, lg, zc)
            ELSE IF ~InList(parent_label, childs) /\ parent_label \notin DOMAIN lg
            THEN [conf |-> conf, raised |-> "KeyError"]
            ELSE ImportLoop(Tail(todo),
                    ImportParam(
                        ImportParam(conf, child_label, parent_label, "center",
                                    childs, lg, zc),
                        child_label, parent_label, "sigma", childs, lg, zc),
                    ln, lg, zc)

\* The '_kinem' entries and the constraint the user configured, if any.
KinemEntries == [Labels -> Labels \cup {"None"}]
UserEntries ==
    {<<>>} \cup
    {[k \in {ParamKey(l, p)} |-> [value |-> <<WTheo(l), 1>>, vary |-> TRUE]] :
        l \in Labels, p \in {"center", "sigma"}}

InitKin ==
    /\ ExtOff
    /\ RunOff
    /\ CfgOff
    /\ kin_pc = "call"
    /\ kin_error = "none"
    /\ line \in Lines
    /\ \E kinem \in KinemEntries : \E user \in UserEntries :
          line_fit_conf =
              [k \in {KinemKey(l) : l \in {x \in Labels : kinem[x] # "None"}}
                     \cup DOMAIN user |->
                  IF k \in DOMAIN user THEN user[k]
                  ELSE kinem[CHOOSE l \in Labels : KinemKey(l) = k]]
    /\ user_fit_conf = line_fit_conf
    /\ \E measured \in SUBSET Labels : log = [l \in measured |-> LogRow(l)]
    /\ z_cor \in {<<1, 1>>, <<11, 10>>}

ImportReturns ==
    /\ kin_pc = "call"
    /\ LET out == ImportLoop(ChildsList(line), line_fit_conf, line, log, z_cor)
       IN  /\ out.raised = "none"
           /\ line_fit_conf' = out.conf
    /\ kin_pc' = "returned"
    /\ UNCHANGED <<runVars, cfgVars, extVars, kin_error, line, user_fit_conf, log, z_cor>>

ImportRaises ==
    /\ kin_pc = "call"
    /\ LET out == ImportLoop(ChildsList(line), line_fit_conf, line, log, z_cor)
       IN  /\ out.raised # "none"
           /\ line_fit_conf' = out.conf
           /\ kin_error' = out.raised
    /\ kin_pc' = "raised"
    /\ UNCHANGED <<runVars, cfgVars, extVars, line, user_fit_conf, log, z_cor>>

NextKin == ImportReturns \/ ImportRaises

SpecKin == InitKin /\ [][NextKin]_vars

\* ======================================================================
\* Spectrum and Cube objects: __init__, unit_conversion, udpate_redshift
\* (specification SpecAttr)
\* ======================================================================
\* Calls made on one object after its construction.
MaxCalls == 2

\* The floating-point numbers are modelled as exact fractions
\* <<numerator, denominator>> in lowest terms.
RECURSIVE Gcd(_, _)
Gcd(a, b) == IF b = 0 THEN a ELSE Gcd(b, a % b)

Reduced(f) == <<f[1] \div Gcd(f[1], f[2]), f[2] \div Gcd(f[1], f[2])>>

Q(n) == <<n, 1>>
QDiv(a, b) == Reduced(<<a[1] * b[2], a[2] * b[1]>>)
QMul(a, b) == Reduced(<<a[1] * b[1], a[2] * b[2]>>)
QAdd(a, b) == Reduced(<<a[1] * b[2] + b[1] * a[2], a[2] * b[2]>>)
QLess(a, b) == a[1] * b[2] < b[1] * a[2]
QSeq(values) == [k \in DOMAIN values |-> Q(values[k])]

\* A numpy array of 1, 2 or 3 dimensions: a spectrum, a spectrum per row, a
\* spectrum per voxel; and an input that is not an array.
Array(ndim, data) == [kind |-> "ndarray", ndim |-> ndim, data |-> data]
NotArray == [kind |-> "list"]

\* array / q and array * q, element by element.
DivArray(a, q) ==
    IF a.ndim = 1
    THEN [a EXCEPT !.data = [k \in DOMAIN a.data |-> QDiv(a.data[k], q)]]
    ELSE [a EXCEPT !.data =
            [c \in DOMAIN a.data |-> [k \in DOMAIN a.data[c] |-> QDiv(a.data[c][k], q)]]]

MulArray(a, q) ==
    IF a.ndim = 1
    THEN [a EXCEPT !.data = [k \in DOMAIN a.data |-> QMul(a.data[k], q)]]
    ELSE [a EXCEPT !.data =
            [c \in DOMAIN a.data |-> [k \in DOMAIN a.data[c] |-> QMul(a.data[c][k], q)]]]

\* The same with the element at i1 included.
SliceInclusive(a, i0, i1) ==
    IF a.ndim = 1
    THEN [a EXCEPT !.data = SubSeq(a.data, i0 + 1, i1 + 1)]
    ELSE [a EXCEPT !.data = [c \in DOMAIN a.data |-> SubSeq(a.data[c], i0 + 1, i1 + 1)]]

\* a[i0:i1] along the wavelength axis
Slice(a, i0, i1) ==
    IF a.ndim = 1
    THEN [a EXCEPT !.data = SubSeq(a.data, i0 + 1, i1)]
    ELSE [a EXCEPT !.data = [c \in DOMAIN a.data |-> SubSeq(a.data[c], i0 + 1, i1)]]

\* The values the arrays given to __init__ hold along the wavelength axis.
InputWave == <<2, 4, 6, 8, 10, 12>>
InputFlux == <<5, 7, 30, 9, 6, 8>>
InputErr == <<1, 1, 2, 1, 1, 3>>

InputArray(values, ndim) ==
    Array(ndim, IF ndim = 1 THEN QSeq(values)
                ELSE IF ndim = 2 THEN [r \in Rows |-> QSeq(values)]
                ELSE [c \in Coords |-> QSeq(values)])

InputChoices(values) == {None, NotArray} \cup {InputArray(values, n) : n \in 1 .. 3}

\* check_inputs, for one of its three arrays and for the three in order.
CheckInput(key, value, obj) ==
    IF value = None THEN "ok"
    ELSE IF value.kind # "ndarray" THEN "LiMe_Error"
    ELSE LET dimensions == value.ndim
             spec_check == dimensions = 1 /\ (obj = "Spectrum" \/ key = "wave")
             cube_type == dimensions = 3 /\ obj = "Cube"
         IN  IF ~spec_check /\ ~cube_type THEN "LiMe_Error" ELSE "ok"

CheckInputs(wave, flux, err_flux, obj) ==
    IF CheckInput("wave", wave, obj) # "ok" THEN CheckInput("wave", wave, obj)
    ELSE IF CheckInput("flux", flux, obj) # "ok" THEN CheckInput("flux", flux, obj)
    ELSE CheckInput("err_flux", err_flux, obj)

\* np.searchsorted(a, v): the number of elements of the ascending a below v.
SearchSorted(a, v) == Cardinality({k \in DOMAIN a : QLess(a[k], v)})

\* What a step that may raise hands back.
Raised(exception) == [raised |-> exception]

\* cropping_spectrum. A wavelength input that is no 1D array makes the
\* subscript or np.searchsorted raise, a missing flux the read of its shape.
CroppingSpectrum(crop_waves, input_wave, input_flux, input_err, pixel_mask) ==
    IF crop_waves = <<>>
    THEN [raised |-> "none", wave |-> input_wave, flux |-> input_flux,
          err |-> input_err, mask |-> pixel_mask]
    ELSE IF input_wave = None
    THEN Raised(IF crop_waves[1] = 0 \/ crop_waves[2] = -1 THEN "TypeError" ELSE "ValueError")
    ELSE IF input_wave.ndim # 1 THEN Raised("ValueError")
    ELSE IF input_flux = None THEN Raised("AttributeError")
    ELSE
        LET w == input_wave.data
            min_limit == IF crop_waves[1] # 0 THEN Q(crop_waves[1]) ELSE w[1]
            max_limit == IF crop_waves[2] # -1 THEN Q(crop_waves[2]) ELSE w[Len(w)]
            i0 == SearchSorted(w, min_limit)
            i1 == SearchSorted(w, max_limit)
        IN  [raised |-> "none",
             wave |-> Slice(input_wave, i0, i1),
             flux |-> Slice(input_flux, i0, i1),
             err |-> IF input_err = None THEN None ELSE Slice(input_err, i0, i1),
             mask |-> IF pixel_mask = NoMask THEN NoMask ELSE SubSeq(pixel_mask, i0 + 1, i1)]

\* The same with the flux normalised by the redshift factor instead.
SpecNormalizationMaskingByRedshift(input_wave, input_flux, input_err, pixel_mask, redshift, norm_flux) ==
    IF input_wave = None \/ input_flux = None THEN Raised("UnboundLocalError")
    ELSE IF pixel_mask # NoMask /\ input_flux.ndim # 1 THEN Raised("MaskError")
    ELSE [raised |-> "none",
          wave |-> input_wave,
          wave_rest |-> DivArray(input_wave, norm_flux),
          flux |-> DivArray(input_flux, QAdd(Q(1), redshift)),
          err |-> IF input_err = None THEN None
                  ELSE DivArray(input_err, QAdd(Q(1), redshift)),
          mask |-> pixel_mask]

\* spec_normalization_masking. Without a wavelength or a flux input a local
\* variable is read before it is assigned; a 1D mask does not fit a 3D flux.
SpecNormalizationMasking(input_wave, input_flux, input_err, pixel_mask, redshift, norm_flux) ==
    IF input_wave = None \/ input_flux = None THEN Raised("UnboundLocalError")
    ELSE IF pixel_mask # NoMask /\ input_flux.ndim # 1 THEN Raised("MaskError")
    ELSE [raised |-> "none",
          wave |-> input_wave,
          wave_rest |-> DivArray(input_wave, QAdd(Q(1), redshift)),
          flux |-> DivArray(input_flux, norm_flux),
          err |-> IF input_err = None THEN None
                  ELSE DivArray(input_err, norm_flux),
          mask |-> pixel_mask]

\* Spectrum._set_attributes and Cube.__init__: the checks, the crop, the
\* normalisation, in this order; the first exception ends the construction.
SetAttributes(obj, a) ==
    IF CheckInputs(a.input_wave, a.input_flux, a.input_err, obj) # "ok"
    THEN Raised(CheckInputs(a.input_wave, a.input_flux, a.input_err, obj))
    ELSE
        LET crop == CroppingSpectrum(a.crop_waves, a.input_wave, a.input_flux,
                                     a.input_err, a.pixel_mask)
        IN  IF crop.raised # "none" THEN crop
            ELSE SpecNormalizationMasking(crop.wave, crop.flux, crop.err, crop.mask,
                                          a.redshift, a.norm_flux)

\* np.ma.is_masked: a masked array with a masked element.
IsMasked(mask) == \E k \in DOMAIN mask : mask[k]

\* The arguments __init__ is given.
Redshifts == {<<0, 1>>, <<1, 2>>}
NormFluxes == {<<1, 1>>, <<2, 1>>}
CropWaves == {<<>>, <<0, -1>>, <<4, 10>>}
PixelMasks == {NoMask, <<FALSE, TRUE, FALSE, FALSE, TRUE, FALSE>>}

InitAttr ==
    /\ RunOff
    /\ CfgOff
    /\ KinOff
    /\ ContOff
    /\ BandOff
    /\ ToolOff
    /\ sp_pc = "new"
    /\ sp_error = "none"
    /\ lime_object \in {"Spectrum", "Cube"}
    /\ args \in [input_wave : InputChoices(InputWave),
                 input_flux : InputChoices(InputFlux),
                 input_err : InputChoices(InputErr),
                 redshift : Redshifts,
                 norm_flux : NormFluxes,
                 crop_waves : CropWaves,
                 pixel_mask : PixelMasks]
    /\ spec_wave = None
    /\ spec_wave_rest = None
    /\ spec_flux = None
    /\ spec_err_flux = None
    /\ spec_mask = NoMask
    /\ spec_redshift = <<0, 1>>
    /\ spec_norm_flux = <<1, 1>>
    /\ spec_units_wave = "A"
    /\ given = <<>>
    /\ n_calls = 0

arrays == <<spec_wave, spec_wave_rest, spec_flux, spec_err_flux, spec_mask>>

ConstructReturns ==
    /\ sp_pc = "new"
    /\ LET out == SetAttributes(lime_object, args)
       IN  /\ out.raised = "none"
           /\ spec_wave' = out.wave
           /\ spec_wave_rest' = out.wave_rest
           /\ spec_flux' = out.flux
           /\ spec_err_flux' = out.err
           /\ spec_mask' = out.mask
    /\ spec_redshift' = args.redshift
    /\ spec_norm_flux' = args.norm_flux
    /\ given' = [redshift |-> args.redshift, norm_flux |-> args.norm_flux,
                 converted |-> FALSE]
    /\ sp_pc' = "built"
    /\ UNCHANGED <<runVars, cfgVars, kinVars, contVars, bandVars, toolVars, sp_error, lime_object, args,
                   spec_units_wave, n_calls>>

ConstructRaises ==
    /\ sp_pc = "new"
    /\ LET out == SetAttributes(lime_object, args)
       IN  /\ out.raised # "none"
           /\ sp_error' = out.raised
    /\ sp_pc' = "raised"
    /\ UNCHANGED <<runVars, cfgVars, kinVars, contVars, bandVars, toolVars, lime_object, args, arrays, spec_redshift,
                   spec_norm_flux, spec_units_wave, given, n_calls>>

\* The dispersion units unit_conversion accepts, and the conversion of one
\* wavelength array between the two of them the model uses.
DISPERSION_UNITS == {"A", "um", "nm", "Hz", "cm", "mm"}

ConvertWave(units_in, units_out, wave_array) ==
    IF units_in = units_out THEN wave_array
    ELSE IF units_out = "nm" THEN DivArray(wave_array, Q(10))
    ELSE MulArray(wave_array, Q(10))

\* The same with the old normalisation left in the flux.
SwitchNormKeepsOld(flux, old_norm, norm_flux) == DivArray(flux, norm_flux)

\* self.flux * self.norm_flux / norm_flux
SwitchNorm(flux, old_norm, norm_flux) == DivArray(MulArray(flux, old_norm), norm_flux)

\* unit_conversion(units_wave, norm_flux=norm_flux) with units_flux left None;
\* "None" for an argument left out.
UnitConversionReturns ==
    /\ sp_pc = "built"
    /\ lime_object = "Spectrum"
    /\ n_calls < MaxCalls
    /\ \E units_wave \in {"None", "A", "nm"} : \E norm_flux \in {<<>>, <<2, 1>>, <<4, 1>>} :
          /\ IF units_wave # "None"
             THEN LET output_wave == ConvertWave(spec_units_wave, units_wave, spec_wave)
                  IN  /\ spec_wave' = output_wave
                      /\ spec_wave_rest' = DivArray(output_wave, QAdd(Q(1), spec_redshift))
                      /\ spec_units_wave' = units_wave
             ELSE UNCHANGED <<spec_wave, spec_wave_rest, spec_units_wave>>
          /\ IF norm_flux # <<>>
             THEN /\ spec_flux' = SwitchNorm(spec_flux, spec_norm_flux, norm_flux)
                  /\ spec_err_flux' =
                        IF spec_err_flux = None THEN None
                        ELSE SwitchNorm(spec_err_flux, spec_norm_flux, norm_flux)
                  /\ spec_norm_flux' = norm_flux
             ELSE UNCHANGED <<spec_flux, spec_err_flux, spec_norm_flux>>
          /\ given' = [given EXCEPT
                          !.norm_flux = IF norm_flux # <<>> THEN norm_flux ELSE @,
                          !.converted = @ \/ (units_wave # "None"
                                              /\ units_wave # spec_units_wave)]
    /\ n_calls' = n_calls + 1
    /\ sp_error' = "none"
    /\ UNCHANGED <<runVars, cfgVars, kinVars, contVars, bandVars, toolVars, sp_pc, lime_object, args, spec_mask,
                   spec_redshift>>

\* Units that are not in DISPERSION_UNITS: the warning, then output_wave is
\* read without having been assigned.
UnitConversionRaises ==
    /\ sp_pc = "built"
    /\ lime_object = "Spectrum"
    /\ n_calls < MaxCalls
    /\ \E units_wave \in {"parsec"} : units_wave \notin DISPERSION_UNITS
    /\ n_calls' = n_calls + 1
    /\ sp_error' = "UnboundLocalError"
    /\ UNCHANGED <<runVars, cfgVars, kinVars, contVars, bandVars, toolVars, sp_pc, lime_object, args, arrays,
                   spec_redshift, spec_norm_flux, spec_units_wave, given>>

\* udpate_redshift
UdpateRedshiftReturns ==
    /\ sp_pc = "built"
    /\ lime_object = "Spectrum"
    /\ n_calls < MaxCalls
    /\ ~(IsMasked(spec_mask) /\ spec_err_flux = None)
    /\ \E redshift \in Redshifts \cup {<<1, 1>>} :
          LET out == SpecNormalizationMasking(spec_wave, spec_flux, spec_err_flux,
                                              IF IsMasked(spec_mask) THEN spec_mask
                                              ELSE NoMask,
                                              redshift, Q(1))
          IN  /\ out.raised = "none"
              /\ spec_redshift' = redshift
              /\ spec_wave' = out.wave
              /\ spec_wave_rest' = out.wave_rest
              /\ spec_flux' = out.flux
              /\ spec_err_flux' = out.err
              /\ given' = [given EXCEPT !.redshift = redshift]
    /\ n_calls' = n_calls + 1
    /\ sp_error' = "none"
    /\ UNCHANGED <<runVars, cfgVars, kinVars, contVars, bandVars, toolVars, sp_pc, lime_object, args, spec_mask,
                   spec_norm_flux, spec_units_wave>>

\* With masked arrays and no uncertainty, self.err_flux.data is read of None.
UdpateRedshiftRaises ==
    /\ sp_pc = "built"
    /\ lime_object = "Spectrum"
    /\ n_calls < MaxCalls
    /\ IsMasked(spec_mask) /\ spec_err_flux = None
    /\ n_calls' = n_calls + 1
    /\ sp_error' = "AttributeError"
    /\ UNCHANGED <<runVars, cfgVars, kinVars, contVars, bandVars, toolVars, sp_pc, lime_object, args, arrays,
                   spec_redshift, spec_norm_flux, spec_units_wave, given>>

NextAttr ==
    \/ ConstructReturns
    \/ ConstructRaises
    \/ UnitConversionReturns
    \/ UnitConversionRaises
    \/ UdpateRedshiftReturns
    \/ UdpateRedshiftRaises

SpecAttr == InitAttr /\ [][NextAttr]_vars

\* ======================================================================
\* SpecTreatment.continuum (specification SpecCont)
\* ======================================================================
\* The longest degree_list.
MaxDegrees == 2

QSub(a, b) == Reduced(<<a[1] * b[2] - b[1] * a[2], a[2] * b[2]>>)

\* The elements of a sequence at the indices a boolean mask selects, in order.
RECURSIVE Selected(_, _)
Selected(values, mask) ==
    IF values = <<>> THEN <<>>
    ELSE (IF Head(mask) THEN <<Head(values)>> ELSE <<>>)
         \o Selected(Tail(values), Tail(mask))

\* np.percentile(values, q): linear interpolation between the two samples
\* around the position q / 100 * (n - 1) of the sorted values.
Percentile(values, q) ==
    LET sorted == SortSeq(values, QLess)
        n == Len(sorted)
        below == (q * (n - 1)) \div 100
        part == <<(q * (n - 1)) % 100, 100>>
    IN  IF below + 1 >= n THEN sorted[n]
        ELSE QAdd(sorted[below + 1],
                  QMul(part, QSub(sorted[below + 2], sorted[below + 1])))

\* np.full(size, np.nan), and NaN.
NaNArray == [kind |-> "nan"]

\* Whether the fit of a polynomial of this degree to n samples raises
\* TypeError: it has degree + 1 coefficients to find.
FitRaises(degree, n) == n < degree + 1

\* Whether poly3Out is assigned after the try statement of an iteration.
Poly3OutBound(bound, fails) == bound \/ ~fails

\* The same with the samples as they were when the iteration started.
FitMaskAtStart(start_mask, limits_mask) == start_mask

\* input_flux[mask_cont] as the fit of an iteration gets it: mask_cont has been
\* reassigned with the percentile limits of the iteration by then.
FitMask(start_mask, limits_mask) == limits_mask

\* The loop of continuum from iteration it on. st: the mask mask_cont, the
\* continuum set so far, whether poly3Out is assigned, and the number of
\* samples each iteration fitted.
RECURSIVE ContinuumLoop(_, _, _, _, _, _)
ContinuumLoop(it, degrees, thresholds, plot, input_flux, st) ==
    IF it > Len(degrees) THEN [st EXCEPT !.raised = "none"]
    ELSE
        LET sample == Selected(input_flux, st.mask_cont)
            low_lim == QDiv(Percentile(sample, 16), Q(thresholds[it]))
            high_lim == QMul(Percentile(sample, 84), Q(thresholds[it]))
            mask_cont == [k \in DOMAIN input_flux |->
                            /\ st.mask_cont[k]
                            /\ ~QLess(input_flux[k], low_lim)
                            /\ ~QLess(high_lim, input_flux[k])]
            fit_mask == FitMask(st.mask_cont, mask_cont)
            n == Len(Selected(input_flux, fit_mask))
            fails == FitRaises(degrees[it], n)
            after == [raised |-> "none",
                      mask_cont |-> mask_cont,
                      cont |-> IF fails THEN NaNArray
                               ELSE [kind |-> "polynomial", degree |-> degrees[it],
                                     fitted |-> fit_mask],
                      bound |-> Poly3OutBound(st.bound, fails),
                      samples |-> Append(st.samples, n),
                      masks |-> Append(st.masks, [start |-> st.mask_cont,
                                                  limits |-> mask_cont,
                                                  fitted |-> fit_mask])]
        IN  IF plot /\ ~after.bound
            THEN [after EXCEPT !.raised = "UnboundLocalError"]
            ELSE ContinuumLoop(it + 1, degrees, thresholds, plot, input_flux, after)

\* continuum(degree_list, threshold_list, plot_steps) on the spectrum.
Continuum(degrees, thresholds, plot) ==
    ContinuumLoop(1, degrees, thresholds, plot, spec_flux.data,
                  [raised |-> "none",
                   mask_cont |-> IF IsMasked(spec_mask)
                                 THEN [k \in DOMAIN spec_mask |-> ~spec_mask[k]]
                                 ELSE [k \in DOMAIN spec_flux.data |-> TRUE],
                   cont |-> None,
                   bound |-> FALSE,
                   samples |-> <<>>,
                   masks |-> <<>>])

\* The arguments: degrees and thresholds (above 1, as the defaults are), one
\* threshold per degree.
Degrees == {1, 3, 7}
Thresholds == {2, 5}
ContMasks == PixelMasks \cup {<<TRUE, FALSE, TRUE, FALSE, FALSE, TRUE>>}

\* A Spectrum or a Cube as its construction leaves it.
Built(obj, a) ==
    LET out == SetAttributes(obj, a)
    IN  /\ out.raised = "none"
        /\ sp_pc = "built"
        /\ sp_error = "none"
        /\ lime_object = obj
        /\ args = a
        /\ spec_wave = out.wave
        /\ spec_wave_rest = out.wave_rest
        /\ spec_flux = out.flux
        /\ spec_err_flux = out.err
        /\ spec_mask = out.mask
        /\ spec_redshift = a.redshift
        /\ spec_norm_flux = a.norm_flux
        /\ spec_units_wave = "A"
        /\ given = [redshift |-> a.redshift, norm_flux |-> a.norm_flux,
                    converted |-> FALSE]
        /\ n_calls = 0

InitCont ==
    /\ RunOff
    /\ CfgOff
    /\ KinOff
    /\ BandOff
    /\ ToolOff
    /\ \E a \in [input_wave : {InputArray(InputWave, 1)},
                 input_flux : {InputArray(InputFlux, 1)},
                 input_err : {None, InputArray(InputErr, 1)},
                 redshift : {<<1, 2>>},
                 norm_flux : {<<2, 1>>},
                 crop_waves : {<<>>},
                 pixel_mask : ContMasks] : Built("Spectrum", a)
    /\ cont_pc = "call"
    /\ cont_error = "none"
    /\ \E n \in 1 .. MaxDegrees :
          /\ degree_list \in [1 .. n -> Degrees]
          /\ threshold_list \in [1 .. n -> Thresholds]
    /\ plot_steps \in BOOLEAN
    /\ spec_cont = None
    /\ spec_cont_std = None
    /\ cont_samples = <<>>
    /\ cont_masks = <<>>

ContinuumReturns ==
    /\ cont_pc = "call"
    /\ LET out == Continuum(degree_list, threshold_list, plot_steps)
       IN  /\ out.raised = "none"
           /\ spec_cont' = out.cont
           /\ spec_cont_std' = IF out.cont = NaNArray THEN NaNArray
                              ELSE [kind |-> "std", over |-> out.mask_cont]
           /\ cont_samples' = out.samples
           /\ cont_masks' = out.masks
    /\ cont_pc' = "returned"
    /\ UNCHANGED <<runVars, cfgVars, kinVars, attrVars, bandVars, toolVars, cont_error, degree_list,
                   threshold_list, plot_steps>>

ContinuumRaises ==
    /\ cont_pc = "call"
    /\ LET out == Continuum(degree_list, threshold_list, plot_steps)
       IN  /\ out.raised # "none"
           /\ cont_error' = out.raised
           /\ spec_cont' = out.cont
           /\ cont_samples' = out.samples
           /\ cont_masks' = out.masks
    /\ cont_pc' = "raised"
    /\ UNCHANGED <<runVars, cfgVars, kinVars, attrVars, bandVars, toolVars, degree_list, threshold_list,
                   plot_steps, spec_cont_std>>

NextCont == ContinuumReturns \/ ContinuumRaises

SpecCont == InitCont /\ [][NextCont]_vars

\* ======================================================================
\* SpecTreatment.band and SpecTreatment.frame, and the pass of spatial_mask
\* over one voxel (specifications SpecBand and SpecLog)
\* ======================================================================
\* Calls made on one object.
MaxBandCalls == 2

\* The lines of the band table: two single lines and their blend, whose
\* fit_conf entry names the components. A single line is its only component.
BandLabels == <<"H1_6563A", "N2_6584A", "H1_6563A_b">>

ListComps(label) ==
    IF label = "H1_6563A_b" THEN <<"H1_6563A", "N2_6584A">> ELSE <<label>>

\* Line(label, band_edges, fit_conf): the rest-frame band edges w1..w6 as
\* .mask, the pixels its pixel_mask entry excludes, no observations yet.
NewLine(label, entry) ==
    [label |-> label,
     profile_label |-> IF Len(ListComps(label)) > 1 THEN ListComps(label) ELSE <<"no">>,
     blended_check |-> Len(ListComps(label)) > 1,
     mask |-> entry.w,
     pixel_mask |-> entry.pixel_mask,
     observations |-> "no",
     intg_flux |-> None]

\* lo <= x <= hi
Within(x, lo, hi) == ~QLess(x, lo) /\ ~QLess(hi, x)

\* define_masks(wave, band edges in the observed frame, pixel_mask): the
\* pixels within [w3, w4] and those within [w1, w2] or [w5, w6], without the
\* ones pixel_mask excludes; an error for edges that decrease or a band that
\* lies outside the wavelengths of the spectrum.
DefineMasks(wave, w, pixel_mask) ==
    IF \/ \E k \in 1 .. 5 : QLess(w[k + 1], w[k])
       \/ QLess(w[6], wave[1])
       \/ QLess(wave[Len(wave)], w[1])
    THEN [raised |-> "Error"]
    ELSE [raised |-> "none",
          idcsEmis |-> [k \in DOMAIN wave |->
                          k \notin pixel_mask /\ Within(wave[k], w[3], w[4])],
          idcsCont |-> [k \in DOMAIN wave |->
                          /\ k \notin pixel_mask
                          /\ (Within(wave[k], w[1], w[2]) \/ Within(wave[k], w[5], w[6]))]]

\* The number of pixels an index array selects, and of those that the mask of
\* the spectrum leaves valid.
Size(idcs) == Cardinality({k \in DOMAIN idcs : idcs[k]})
Valid(idcs, mask) ==
    Cardinality({k \in DOMAIN idcs : idcs[k] /\ ~(mask # NoMask /\ mask[k])})

\* emis_band_lengh <= 1
SmallBand(emis_band_lengh) == emis_band_lengh <= 1

\* review_bands: emis and cont give the size of emis_wave and cont_wave and
\* the number of their valid pixels. The ratio of an empty array is 0 / 0 of
\* Python integers.
ReviewBands(observations, emis, cont) ==
    IF emis.size = 0 \/ cont.size = 0
    THEN [raised |-> "ZeroDivisionError", observations |-> observations, warnings |-> {}]
    ELSE [raised |-> "none",
          observations |->
              IF SmallBand(emis.valid)
              THEN IF observations = "no" THEN "Small_line_band"
                   ELSE observations \o "-Small_line_band"
              ELSE observations,
          warnings |->
              {x \in {"line band has very few valid pixels"} : 2 * emis.valid < emis.size}
              \cup {x \in {"continuum band has very few valid pixels"} :
                        2 * cont.valid < cont.size}
              \cup {x \in {"band is too small"} : emis.valid <= 1}]

\* The sum of the values of an array at the selected pixels.
RECURSIVE SumOver(_, _)
SumOver(values, selection) ==
    IF values = <<>> THEN Q(0)
    ELSE QAdd(IF Head(selection) THEN Head(values) ELSE Q(0),
              SumOver(Tail(values), Tail(selection)))

\* integrated_properties: the integrated flux, the sum of the flux over the
\* valid pixels of the line band, NaN without any.
IntegratedProperties(ln, emisFlux, emis_valid_pixels) ==
    [ln EXCEPT !.intg_flux =
        IF \A k \in DOMAIN emis_valid_pixels : ~emis_valid_pixels[k] THEN NaNArray
        ELSE [kind |-> "sum", over |-> emis_valid_pixels,
              value |-> SumOver(emisFlux, emis_valid_pixels)]]

\* The same adding a row whether or not the label has one.
UpsertAppends(lg, row) == Append(lg, row)

\* The row of a label written to the Log: over the row the label has, at the
\* end if it has none.
Upsert(lg, row) ==
    IF \E k \in DOMAIN lg : lg[k].label = row.label
    THEN [k \in DOMAIN lg |-> IF lg[k].label = row.label THEN row ELSE lg[k]]
    ELSE Append(lg, row)

\* results_to_log: one row per component of the line, the flux with the
\* normalisation of the spectrum taken out.
RECURSIVE ResultsToLog(_, _, _, _)
ResultsToLog(comps, ln, lg, norm_flux) ==
    IF comps = <<>> THEN lg
    ELSE ResultsToLog(Tail(comps), ln,
                      Upsert(lg, [label |-> Head(comps),
                                  intg_flux |-> IF ln.intg_flux = NaNArray THEN NaNArray
                                                ELSE [ln.intg_flux EXCEPT
                                                         !.kind = "sum * norm_flux",
                                                         !.value = QMul(@, norm_flux)],
                                  observations |-> ln.observations]),
                      norm_flux)

\* The same with the flux of the spectrum denormalised where it is stored.
SpectrumAfterBandDenormalised(sp) ==
    [sp EXCEPT !.flux = [k \in DOMAIN sp.flux |-> QMul(sp.flux[k], sp.norm_flux)]]

\* The spectrum after a call of band: band reads its arrays through boolean
\* index arrays, which copy, and assigns none of its attributes.
SpectrumAfterBand(sp) == sp

\* band(label, band_edges) on the spectrum sp with the Log lg. fit_conf holds
\* no '_kinem' entry here.
BandCall(sp, lg, label, entry) ==
    LET ln0 == NewLine(label, entry)
        z_factor == QAdd(Q(1), sp.redshift)
        dm == DefineMasks(sp.wave, [k \in 1 .. 6 |-> QMul(Q(ln0.mask[k]), z_factor)],
                          ln0.pixel_mask)
    IN  IF dm.raised # "none"
        THEN [raised |-> dm.raised, sp |-> sp, log |-> lg, line |-> ln0, out |-> NoOut,
              written |-> 0]
        ELSE
            LET idcsEmis == dm.idcsEmis
                idcsCont == dm.idcsCont
                rb == ReviewBands(ln0.observations,
                                  [size |-> Size(idcsEmis), valid |-> Valid(idcsEmis, sp.mask)],
                                  [size |-> Size(idcsCont), valid |-> Valid(idcsCont, sp.mask)])
                ln1 == [ln0 EXCEPT !.observations = rb.observations]
                ln2 == IntegratedProperties(ln1, sp.flux,
                           [k \in DOMAIN idcsEmis |->
                               idcsEmis[k] /\ ~(sp.mask # NoMask /\ sp.mask[k])])
                kin == ImportLoop(ChildsList(ln2), <<>>, ln2, <<>>, z_factor)
                idcsLine == [k \in DOMAIN idcsEmis |-> idcsEmis[k] \/ idcsCont[k]]
                out == [idcsEmis |-> idcsEmis, idcsCont |-> idcsCont,
                        idcsLine |-> IF rb.raised = "none" THEN idcsLine ELSE <<>>,
                        warnings |-> rb.warnings]
            IN  IF rb.raised # "none"
                THEN [raised |-> rb.raised, sp |-> sp, log |-> lg, line |-> ln0, out |-> out,
                      written |-> 0]
                ELSE IF kin.raised # "none"
                THEN [raised |-> kin.raised, sp |-> sp, log |-> lg, line |-> ln2, out |-> out,
                      written |-> 0]
                ELSE [raised |-> "none",
                      sp |-> SpectrumAfterBand(sp),
                      log |-> ResultsToLog(ListComps(label), ln2, lg, sp.norm_flux),
                      line |-> ln2,
                      out |-> out,
                      written |-> Len(ListComps(label))]

\* The loop of frame over the labels of the band table: the first band call
\* that raises ends it.
RECURSIVE FrameLoop(_, _, _, _, _)
FrameLoop(labels, bands, sp, lg, last) ==
    IF labels = <<>> THEN last
    ELSE LET res == BandCall(sp, lg, Head(labels), bands[Head(labels)])
         IN  IF res.raised # "none" THEN [res EXCEPT !.written = last.written]
             ELSE FrameLoop(Tail(labels), bands, res.sp, res.log,
                            [res EXCEPT !.written = last.written + res.written])

\* frame(bands_df, line_list=line_list). With a line_list the table is
\* replaced by the array of its labels, whose .index the loop then asks for.
Frame(sp, lg, labels, bands, line_list) ==
    IF line_list # "None"
    THEN [raised |-> "AttributeError", sp |-> sp, log |-> lg, line |-> NoLine, out |-> NoOut,
          written |-> 0]
    ELSE FrameLoop(labels, bands, sp, lg,
                   [raised |-> "none", sp |-> sp, log |-> lg, line |-> NoLine, out |-> NoOut,
                    written |-> 0])

\* The Spectrum the calls are made on.
TheSpectrum ==
    [wave |-> spec_wave.data,
     flux |-> spec_flux.data,
     err |-> IF spec_err_flux = None THEN <<>> ELSE spec_err_flux.data,
     mask |-> spec_mask,
     redshift |-> spec_redshift,
     norm_flux |-> spec_norm_flux]

\* The same with the log of the spectrum made before it for its log.
FromCubeSharedLog(idx_j, idx_i) ==
    [wave |-> spec_wave.data,
     flux |-> spec_flux.data[<<idx_j, idx_i>>],
     err |-> IF spec_err_flux = None THEN <<>> ELSE spec_err_flux.data[<<idx_j, idx_i>>],
     mask |-> NoMask,
     redshift |-> spec_redshift,
     norm_flux |-> spec_norm_flux,
     log |-> spaxel_log]

\* Spectrum.from_cube(cube, idx_j, idx_i): the wavelengths of the cube, the
\* flux and the uncertainty of the voxel, the redshift and the normalisation
\* of the cube, a new empty log.
FromCube(idx_j, idx_i) ==
    [wave |-> spec_wave.data,
     flux |-> spec_flux.data[<<idx_j, idx_i>>],
     err |-> IF spec_err_flux = None THEN <<>> ELSE spec_err_flux.data[<<idx_j, idx_i>>],
     mask |-> NoMask,
     redshift |-> spec_redshift,
     norm_flux |-> spec_norm_flux,
     log |-> <<>>]

\* A cube whose voxels differ: the values of the voxel <<row, col>> are the
\* given ones plus 10 * row + col.
InputCube(values) ==
    Array(3, [c \in Coords |-> QSeq([k \in DOMAIN values |-> values[k] + 10 * c[1] + c[2]])])

\* The band tables: the edges of each line and the pixels its pixel_mask
\* entry excludes ({} for 'no').
EdgeValues == 1 .. 6
EdgeTuples == {w \in [1 .. 6 -> EdgeValues] : \A k \in 1 .. 5 : w[k] <= w[k + 1]}
LinePixelMasks == {{}, {3, 4}}

\* The pixel masks with at most half of the pixels masked.
HalfMasks ==
    {NoMask} \cup
    {m \in [1 .. Len(InputWave) -> BOOLEAN] :
        /\ \E k \in DOMAIN m : m[k]
        /\ 2 * Cardinality({k \in DOMAIN m : m[k]}) <= Len(InputWave)}

\* One call of band on a Spectrum, for every band and every mask.
InitBand ==
    /\ RunOff
    /\ CfgOff
    /\ KinOff
    /\ ContOff
    /\ ToolOff
    /\ \E a \in [input_wave : {InputArray(InputWave, 1)},
                 input_flux : {InputArray(InputFlux, 1)},
                 input_err : {InputArray(InputErr, 1)},
                 redshift : {<<0, 1>>, <<1, 1>>},
                 norm_flux : {<<2, 1>>},
                 crop_waves : {<<>>},
                 pixel_mask : HalfMasks] : Built("Spectrum", a)
    /\ band_pc = "ready"
    /\ band_error = "none"
    /\ \E w \in EdgeTuples : \E pixel_mask \in LinePixelMasks :
          bands_df = [l \in {"H1_6563A"} |-> [w |-> w, pixel_mask |-> pixel_mask]]
    /\ spec_log = <<>>
    /\ band_line = NoLine
    /\ band_out = NoOut
    /\ spaxel_log = <<>>
    /\ spaxel_coord = <<0, 0>>
    /\ calls_left = 1
    /\ n_written = 0

\* The bands of the tables of the longer runs: a line band of three pixels
\* between two continuum bands, one of a single pixel, and one with no pixel
\* between its edges w3 = w4.
TableBands ==
    {[w |-> <<1, 2, 3, 5, 6, 6>>, pixel_mask |-> {}],
     [w |-> <<1, 2, 4, 4, 5, 6>>, pixel_mask |-> {}],
     [w |-> <<1, 2, 3, 4, 5, 6>>, pixel_mask |-> {3, 4}]}

\* Up to MaxBandCalls calls of band and frame on a Spectrum, or of the pass
\* of spatial_mask over a voxel of a Cube.
InitLog ==
    /\ RunOff
    /\ CfgOff
    /\ KinOff
    /\ ContOff
    /\ ToolOff
    /\ \E obj \in {"Spectrum", "Cube"} :
       \E a \in [input_wave : {InputArray(InputWave, 1)},
                 input_flux : {IF obj = "Spectrum" THEN InputArray(InputFlux, 1)
                               ELSE InputCube(InputFlux)},
                 input_err : {None, IF obj = "Spectrum" THEN InputArray(InputErr, 1)
                                    ELSE InputCube(InputErr)},
                 redshift : {<<1, 1>>},
                 norm_flux : {<<2, 1>>},
                 crop_waves : {<<>>},
                 pixel_mask : IF obj = "Spectrum" THEN PixelMasks ELSE {NoMask}] :
          Built(obj, a)
    /\ band_pc = "ready"
    /\ band_error = "none"
    /\ bands_df \in [{BandLabels[k] : k \in DOMAIN BandLabels} -> TableBands]
    /\ spec_log = <<>>
    /\ band_line = NoLine
    /\ band_out = NoOut
    /\ spaxel_log = <<>>
    /\ spaxel_coord = <<0, 0>>
    /\ calls_left = MaxBandCalls
    /\ n_written = 0

\* What a call leaves in the object: the arrays and the log.
Leaves(res) ==
    /\ spec_wave' = [spec_wave EXCEPT !.data = res.sp.wave]
    /\ spec_flux' = [spec_flux EXCEPT !.data = res.sp.flux]
    /\ spec_err_flux' = IF spec_err_flux = None THEN None
                        ELSE [spec_err_flux EXCEPT !.data = res.sp.err]
    /\ spec_mask' = res.sp.mask
    /\ spec_redshift' = res.sp.redshift
    /\ spec_norm_flux' = res.sp.norm_flux
    /\ spec_log' = res.log
    /\ band_line' = res.line
    /\ band_out' = res.out
    /\ band_error' = res.raised
    /\ n_written' = n_written + res.written

idle == <<runVars, cfgVars, kinVars, contVars, toolVars, sp_pc, sp_error, lime_object, args,
          spec_wave_rest, spec_units_wave, given, n_calls, band_pc, bands_df>>

\* spec.fit.band(label, bands_df.loc[label, 'w1':'w6'])
Band ==
    /\ band_pc = "ready"
    /\ lime_object = "Spectrum"
    /\ calls_left > 0
    /\ \E label \in DOMAIN bands_df :
       \E res \in {BandCall(TheSpectrum, spec_log, label, bands_df[label])} :
          Leaves(res)
    /\ calls_left' = calls_left - 1
    /\ UNCHANGED <<idle, spaxel_log, spaxel_coord>>

\* spec.fit.frame(bands_df, line_list=line_list)
FrameCall ==
    /\ band_pc = "ready"
    /\ lime_object = "Spectrum"
    /\ calls_left > 0
    /\ \E line_list \in {"None", "list"} :
       \E res \in {Frame(TheSpectrum, spec_log,
                          SelectSeq(BandLabels, LAMBDA l : l \in DOMAIN bands_df),
                          bands_df, line_list)} :
          Leaves(res)
    /\ calls_left' = calls_left - 1
    /\ UNCHANGED <<idle, spaxel_log, spaxel_coord>>

\* One pass of the voxel loop of spatial_mask: the spectrum of the voxel is
\* taken from the cube and frame is run on it. Its flux and uncertainty are
\* views of the arrays of the cube and its wavelengths are those of the cube;
\* its redshift, its normalisation and its log are its own. With line
\* detection frame measures the lines detected in the voxel, any of those of
\* the table.
SpatialMaskPass ==
    /\ band_pc = "ready"
    /\ lime_object = "Cube"
    /\ calls_left > 0
    /\ \E coord \in Coords : \E detected \in SUBSET DOMAIN bands_df :
       \E spaxel \in {FromCube(coord[1], coord[2])} :
       \E res \in {Frame(spaxel, spaxel.log,
                          SelectSeq(BandLabels, LAMBDA l : l \in detected),
                          bands_df, "None")} :
              /\ spaxel_coord' = coord
              /\ spec_wave' = [spec_wave EXCEPT !.data = res.sp.wave]
              /\ spec_flux' = [spec_flux EXCEPT !.data[coord] = res.sp.flux]
              /\ spec_err_flux' = IF spec_err_flux = None THEN None
                                  ELSE [spec_err_flux EXCEPT !.data[coord] = res.sp.err]
              /\ spaxel_log' = res.log
              /\ band_line' = res.line
              /\ band_out' = res.out
              /\ band_error' = res.raised
              /\ n_written' = n_written + res.written
    /\ calls_left' = calls_left - 1
    /\ UNCHANGED <<idle, spec_mask, spec_redshift, spec_norm_flux, spec_log>>

NextBand == Band

SpecBand == InitBand /\ [][NextBand]_vars

NextLog == Band \/ FrameCall \/ SpatialMaskPass

SpecLog == InitLog /\ [][NextLog]_vars

\* ======================================================================
\* Cube.spatial_masking (specification SpecMasking)
\* ======================================================================
\* The arguments: param ("None" for None), the percentile levels, one or two
\* of them in any order.
Params == {"flux", "SN_line", "SN_cont", "None", "SN"}
PctlValues == {50, 90, 99}
ContourPctls ==
    {<<p>> : p \in PctlValues} \cup {<<p, q>> : p \in PctlValues, q \in PctlValues}

\* np.all(np.diff(contour_pctls) > 0)
Increasing(pctls) == \A k \in 1 .. (Len(pctls) - 1) : pctls[k + 1] > pctls[k]

\* np.flip
Flip(seq) == [k \in DOMAIN seq |-> seq[Len(seq) + 1 - k]]

\* The calculation the if / elif / else on param runs: the sum of the flux
\* over the line band for None, the continuum signal-to-noise for 'SN_cont',
\* the emission-line signal-to-noise for anything else.
ParamImageKind(p) ==
    IF p = "None" THEN "flux sum"
    ELSE IF p = "SN_cont" THEN "continuum S/N"
    ELSE "emission line S/N"

\* The images a calculation may give: a value per voxel.
Images == [Coords -> 1 .. 3]

\* np.nanpercentile(param_image, inver_percentiles)
ParamArray(image, inver_percentiles) ==
    [k \in DOMAIN inver_percentiles |->
        Percentile([n \in DOMAIN RowMajor |-> Q(image[RowMajor[n]])], inver_percentiles[k])]

\* The mask of the level at index idx (from 0) of param_array.
LevelMask(image, param_array, idx) ==
    [c \in Coords |->
        /\ ~QLess(Q(image[c]), param_array[idx + 1])
        /\ idx > 0 => QLess(Q(image[c]), param_array[idx])
        /\ ~QLess(Q(image[c]), param_array[Len(param_array)])]

\* The container: the primary HDU and one extension 'mask_<idx>' per level
\* with a voxel in it.
MaskHDUL(image, pctls) ==
    LET param_array == ParamArray(image, Flip(pctls))
        levels == [k \in DOMAIN param_array |->
                     [name |-> "mask_" \o ToString(k - 1),
                      data |-> LevelMask(image, param_array, k - 1)]]
    IN  <<[name |-> "PRIMARY", data |-> [c \in Coords |-> FALSE]]>>
        \o SelectSeq(levels, LAMBDA m : \E c \in Coords : m.data[c])

InitMasking ==
    /\ RunOff
    /\ CfgOff
    /\ KinOff
    /\ AttrOff
    /\ ContOff
    /\ BandOff
    /\ BiOff
    /\ sm_pc = "call"
    /\ sm_error = "none"
    /\ param \in Params
    /\ contour_pctls \in ContourPctls
    /\ output_address \in {"None", "ok", "no_folder"}
    /\ param_image = None
    /\ mask_hdul = <<>>
    /\ mask_file = <<>>

smArgs == <<param, contour_pctls, output_address>>
smIdle == <<runVars, cfgVars, kinVars, attrVars, contVars, bandVars, biVars>>

\* The checks of the inputs.
InputsAccepted == Increasing(contour_pctls) /\ param \in {"flux", "SN_line", "SN_cont"}

SpatialMaskingRaisesError ==
    /\ sm_pc = "call"
    /\ ~InputsAccepted
    /\ sm_pc' = "raised"
    /\ sm_error' = "Error"
    /\ UNCHANGED <<smIdle, smArgs, param_image, mask_hdul, mask_file>>

\* The masks are computed, and written if a file is asked for: the folder of
\* the file is looked for after the masks have been computed.
SpatialMaskingReturns ==
    /\ sm_pc = "call"
    /\ InputsAccepted
    /\ output_address # "no_folder"
    /\ \E image \in Images :
          /\ param_image' = [kind |-> ParamImageKind(param), values |-> image]
          /\ mask_hdul' = MaskHDUL(image, contour_pctls)
          /\ mask_file' = IF output_address = "ok" THEN MaskHDUL(image, contour_pctls)
                          ELSE mask_file
    /\ sm_pc' = "returned"
    /\ UNCHANGED <<smIdle, smArgs, sm_error>>

SpatialMaskingRaisesNoFolder ==
    /\ sm_pc = "call"
    /\ InputsAccepted
    /\ output_address = "no_folder"
    /\ \E image \in Images :
          /\ param_image' = [kind |-> ParamImageKind(param), values |-> image]
          /\ mask_hdul' = MaskHDUL(image, contour_pctls)
    /\ sm_pc' = "raised"
    /\ sm_error' = "LiMe_Error"
    /\ UNCHANGED <<smIdle, smArgs, mask_file>>

NextMasking ==
    \/ SpatialMaskingRaisesError
    \/ SpatialMaskingReturns
    \/ SpatialMaskingRaisesNoFolder

SpecMasking == InitMasking /\ [][NextMasking]_vars

\* ======================================================================
\* BandsInspection: the band editor (specification SpecEditor)
\* ======================================================================
\* The selections are made at the wavelengths 0 .. MaxWave of the displayed
\* frame; MaxEvents selections and clicks are handled.
MaxWave == 4
MaxEvents == 3

PlotWaves == 0 .. MaxWave
Buttons == {1, 2, 3}

Label(name) == [name |-> name, suffix |-> ""]

\* circle_band_label: '_b' becomes '_m', '_m' is taken off, '_b' is added
\* to any other label.
CircleBandLabel(current_label) ==
    IF current_label.suffix = "_b" THEN [current_label EXCEPT !.suffix = "_m"]
    ELSE IF current_label.suffix = "_m" THEN [current_label EXCEPT !.suffix = ""]
    ELSE [current_label EXCEPT !.suffix = "_b"]

\* np.where(lineList == label)
Where(lineList, label) == {k \in DOMAIN lineList : lineList[k] = label}

\* log.index.values
IndexValues(lg) == [k \in DOMAIN lg |-> lg[k].label]

\* log.loc[label, 'w1':'w6'].values, for a label of the index
Loc(lg, label) == lg[CHOOSE k \in DOMAIN lg : lg[k].label = label].w

\* log.loc[label, 'w1':'w6'] = m: the rows of that label are set, and a
\* label that is not in the index is added as a new row.
SetLoc(lg, label, m) ==
    IF Where(IndexValues(lg), label) = {}
    THEN Append(lg, [label |-> label, w |-> m])
    ELSE [k \in DOMAIN lg |-> IF lg[k].label = label THEN [lg[k] EXCEPT !.w = m] ELSE lg[k]]

\* log.rename(index={current_label: new_label}, inplace=True)
Rename(lg, current_label, new_label) ==
    [k \in DOMAIN lg |->
       IF lg[k].label = current_label THEN [lg[k] EXCEPT !.label = new_label] ELSE lg[k]]

\* save_line_log(log.loc[activeLines], log_address, parameters=w1..w6): the
\* file holds the rows of the active lines.
SaveLineLog(lg, activeLines) ==
    LET RECURSIVE ActiveRows(_)
        ActiveRows(k) == IF k > Len(lg) THEN <<>>
                         ELSE (IF activeLines[k] THEN <<lg[k]>> ELSE <<>>)
                              \o ActiveRows(k + 1)
    IN  [exists |-> TRUE, rows |-> ActiveRows(1)]

\* save_or_clear_log: with no active line the file is deleted, and the
\* address is asked whether it is a file before it is known to be one; with
\* an active line the active rows are written if there is an address.
SaveOrClearLog(lg, log_address, activeLines, file) ==
    IF \A k \in DOMAIN activeLines : ~activeLines[k]
    THEN IF log_address = "None" THEN [file |-> file, error |-> "AttributeError"]
         ELSE [file |-> NoFile, error |-> "none"]
    ELSE IF log_address = "None" THEN [file |-> file, error |-> "none"]
         ELSE IF Len(activeLines) # Len(lg) THEN [file |-> file, error |-> "IndexError"]
         ELSE [file |-> SaveLineLog(lg, activeLines), error |-> "none"]

\* The wavelength of a selection in the rest frame.
RestFrame(w, rest_frame, z) == IF rest_frame THEN Q(w) ELSE QDiv(Q(w), QAdd(Q(1), z))

\* The rules of _on_select_MI, in its order: the line band, the blue band,
\* the red band, and no change for any other selection.
MaskAfterSelection(m, w_low, w_high) ==
    IF QLess(m[2], w_low) /\ QLess(w_high, m[5])
    THEN [m EXCEPT ![3] = w_low, ![4] = w_high]
    ELSE IF QLess(w_low, m[3]) /\ QLess(w_high, m[3])
    THEN [m EXCEPT ![1] = w_low, ![2] = w_high]
    ELSE IF QLess(m[4], w_low) /\ QLess(m[4], w_high)
    THEN [m EXCEPT ![5] = w_low, ![6] = w_high]
    ELSE m

\* The tables of bands the editor is opened on.
Edges(w1, w2, w3, w4, w5, w6) == <<Q(w1), Q(w2), Q(w3), Q(w4), Q(w5), Q(w6)>>
InputMasks ==
    { <<[label |-> Label("H1_4861A"), w |-> Edges(0, 0, 3, 3, 4, 4)]>>,
      <<[label |-> Label("O3_5007A"), w |-> Edges(1, 1, 2, 2, 3, 3)]>>,
      <<[label |-> Label("H1_4861A"), w |-> Edges(0, 0, 3, 3, 4, 4)],
        [label |-> Label("O3_5007A"), w |-> Edges(1, 1, 2, 2, 3, 3)]>> }

\* The state when bands() shows the figure: without a file at the address
\* every line of the input table is active, and every cell carries the label
\* of its line.
InitEditor ==
    /\ RunOff
    /\ CfgOff
    /\ KinOff
    /\ AttrOff
    /\ ContOff
    /\ BandOff
    /\ SmOff
    /\ fig_open = TRUE
    /\ bi_error = "none"
    /\ self_rest_frame \in BOOLEAN
    /\ self_redshift = IF self_rest_frame THEN Q(0) ELSE Q(1)
    /\ self_log_address \in {"None", "file"}
    /\ self_log \in InputMasks
    /\ self_activeLines = [k \in DOMAIN self_log |-> TRUE]
    /\ self_lineList = IndexValues(self_log)
    /\ self_line = self_log[Len(self_log)].label
    /\ self_mask = self_log[Len(self_log)].w
    /\ self_ax = 0
    /\ self_idx_ax = {}
    /\ ax_titles = IndexValues(self_log)
    /\ log_file = NoFile
    /\ n_events = 0

biIdle == <<runVars, cfgVars, kinVars, attrVars, contVars, bandVars, smVars>>
biArgs == <<self_rest_frame, self_redshift, self_log_address>>

\* An exception of a callback is reported by the toolkit, which goes on or
\* ends the session.
AfterCallback(err) == IF err = "none" THEN {TRUE} ELSE BOOLEAN

\* _on_enter_axes_MI: the pointer enters a cell.
OnEnterAxesMI ==
    /\ fig_open
    /\ \E ax \in DOMAIN ax_titles :
          LET title == ax_titles[ax]
              found == Where(IndexValues(self_log), title) # {}
              err == IF found THEN "none" ELSE "KeyError"
          IN  /\ self_ax' = ax
              /\ self_line' = title
              /\ self_idx_ax' = Where(self_lineList, title)
              /\ self_mask' = IF found THEN Loc(self_log, title) ELSE self_mask
              /\ bi_error' = err
              /\ fig_open' \in AfterCallback(err)
    /\ UNCHANGED <<biIdle, biArgs, self_log, self_activeLines, self_lineList, ax_titles,
                   log_file, n_events>>

\* _on_select_MI: a selection from w_low to w_high is released.
SelectMI(w_low, w_high) ==
    /\ fig_open
    /\ self_ax # 0
    /\ n_events < MaxEvents
    /\ n_events' = n_events + 1
    /\ IF w_low = w_high
       THEN UNCHANGED <<self_mask, self_log, log_file, ax_titles, bi_error, fig_open>>
       ELSE LET new_mask == MaskAfterSelection(self_mask,
                               RestFrame(w_low, self_rest_frame, self_redshift),
                               RestFrame(w_high, self_rest_frame, self_redshift))
                new_log == SetLoc(self_log, self_line, new_mask)
                saved == SaveOrClearLog(new_log, self_log_address, self_activeLines,
                                        log_file)
            IN  /\ self_mask' = new_mask
                /\ self_log' = new_log
                /\ log_file' = saved.file
                /\ bi_error' = saved.error
                /\ ax_titles' = IF saved.error = "none"
                                THEN [ax_titles EXCEPT ![self_ax] = self_line]
                                ELSE ax_titles
                /\ fig_open' \in AfterCallback(saved.error)
    /\ UNCHANGED <<biIdle, biArgs, self_activeLines, self_lineList, self_line, self_ax,
                   self_idx_ax>>

OnSelectMI == \E w_low \in PlotWaves : \E w_high \in PlotWaves :
                 w_low <= w_high /\ SelectMI(w_low, w_high)

\* _on_click_MI: a button is pressed.
OnClickMI ==
    /\ fig_open
    /\ self_ax # 0
    /\ n_events < MaxEvents
    /\ n_events' = n_events + 1
    /\ \E button \in Buttons :
          IF button = 1
          THEN UNCHANGED <<self_line, self_log, self_lineList, self_activeLines, log_file,
                           ax_titles, bi_error, fig_open>>
          ELSE IF button = 2 /\ self_idx_ax = {}
          THEN /\ bi_error' = "IndexError"
               /\ fig_open' \in BOOLEAN
               /\ UNCHANGED <<self_line, self_log, self_lineList, self_activeLines, log_file,
                              ax_titles>>
          ELSE LET current_label == self_lineList[CHOOSE k \in self_idx_ax :
                                                    \A n \in self_idx_ax : k <= n]
                   new_line == IF button = 2 THEN CircleBandLabel(current_label) ELSE self_line
                   new_log == IF button = 2 THEN Rename(self_log, current_label, new_line)
                              ELSE self_log
                   new_active == IF button = 2 THEN self_activeLines
                                 ELSE [k \in DOMAIN self_activeLines |->
                                         IF k \in self_idx_ax THEN ~self_activeLines[k]
                                         ELSE self_activeLines[k]]
                   saved == SaveOrClearLog(new_log, self_log_address, new_active, log_file)
               IN  /\ self_line' = new_line
                   /\ self_log' = new_log
                   /\ self_lineList' = IF button = 2 THEN IndexValues(new_log)
                                       ELSE self_lineList
                   /\ self_activeLines' = new_active
                   /\ log_file' = saved.file
                   /\ bi_error' = saved.error
                   /\ ax_titles' = IF saved.error = "none"
                                   THEN [ax_titles EXCEPT ![self_ax] = new_line]
                                   ELSE ax_titles
                   /\ fig_open' \in AfterCallback(saved.error)
    /\ UNCHANGED <<biIdle, biArgs, self_mask, self_ax, self_idx_ax>>

NextEditor ==
    \/ OnEnterAxesMI
    \/ OnSelectMI
    \/ OnClickMI

SpecEditor == InitEditor /\ [][NextEditor]_vars

\* ======================================================================
\* Properties of spatial_mask (specification Spec)
\* ======================================================================
\* The names the extensions of the processed voxels must carry, in processing
\* order, written out from the coordinates.
ExpectedNames ==
    [k \in 1 .. Len(processed) |->
        ToString(processed[k][2]) \o "-" \o ToString(processed[k][3]) \o "_LINESLOG"]

\* Voxels whose pipeline returned and whose extension is not in the file.
Unsaved == Len(processed) - Len(VoxelExts(disk))

\* <<mask, row, col>> a comes before b: earlier mask, or same mask and earlier
\* in row-major order.
Before(a, b) ==
    \/ a[1] < b[1]
    \/ a[1] = b[1] /\ a[2] < b[2]
    \/ a[1] = b[1] /\ a[2] = b[2] /\ a[3] < b[3]

\* C1 as stated: a run over one mask killed right after n_save + k voxels
\* (0 < k < n_save) leaves exactly n_save voxel extensions in the file.
C1_ExactlyNSaveOnDisk ==
    (/\ pc = "interrupted"
     /\ Len(mask_list) = 1
     /\ \E k \in 1 .. (n_save - 1) : Len(processed) = n_save + k)
    => Len(VoxelExts(disk)) = n_save

\* C2 as stated: the pipeline raising for a voxel does not end the batch.
C2_PipelineErrorDoesNotAbort ==
    error = "pipeline" => pc \in {"loop", "done", "interrupted"}

\* C3: right after the end of any mask (the next mask is about to start, or the
\* call has returned) the file holds the extension of every voxel processed
\* so far, in every mask, whatever the checkpoint counter.
C3_MaskEndSavesAll ==
    (pc = "done" \/ (pc = "loop" /\ i > 0 /\ j = 0))
    => VoxelExts(disk) = ExpectedNames

C3_Witness ==
    /\ pc = "done"
    /\ Len(mask_list) = 2
    /\ spax_counter > 0
    /\ spax_counter < n_save
    /\ Len(processed) > n_save + 1

C5_RowMajorOnce ==
    /\ \A k \in 1 .. Len(processed) : \A l \in 1 .. Len(processed) :
          k < l => Before(processed[k], processed[l])
    /\ pc = "done" =>
          {processed[k] : k \in 1 .. Len(processed)} =
          {<<m - 1, rc[1], rc[2]>> :
              m \in 1 .. Len(mask_list), rc \in Coords} \cap
          {v \in (0 .. (MaxMasks - 1)) \X Rows \X Cols :
              mask_data_list[v[1] + 1][<<v[2], v[3]>>]}

C5_Witness ==
    /\ pc = "done"
    /\ Len(mask_list) = 2
    /\ Len(processed) = 2 * Cardinality(Coords)

\* C6: every processed voxel has added exactly one extension, named
\* '<row>-<col>_LINESLOG', to the container, and after a complete run the
\* file holds as many voxel extensions as voxels were processed.
C6_OneExtensionPerVoxel ==
    /\ pc \in {"loop", "done", "interrupted"} => VoxelExts(hdul_log) = ExpectedNames
    /\ pc = "done" => Len(VoxelExts(disk)) = Len(processed)

C6_Witness ==
    /\ pc = "done"
    /\ Len(processed) >= 3
    /\ \E k \in 1 .. Len(processed) : processed[k][2] # processed[k][3]

\* C8: without an output path, with an output path in a missing folder, or
\* with no band table and a mask lacking an 'input_log', the call raises Error
\* with no voxel processed and nothing written.
C8_InputErrorsBeforeWork ==
    /\ output_log # "ok" => pc \in {"call", "error"}
    /\ (bands_frame = "None" /\ pc \notin {"call", "error"}) =>
          \A k \in 1 .. Len(mask_list) :
              fit_conf[DetectionKey(mask_list[k])] = "input_log"
    /\ pc = "error" =>
          /\ error = "Error"
          /\ processed = <<>>
          /\ hdul_log = <<>>
          /\ disk = <<>>

C8_Witness ==
    /\ pc = "error"
    /\ output_log = "no_folder"
    /\ bands_frame = "df"

\* ======================================================================
\* Properties of the voxel's configuration (specification SpecConf)
\* ======================================================================
\* C7: the configuration used for a voxel is its '<row>-<col>_line_fitting'
\* section when there is one; if not, the '<mask>_line_fitting' section when
\* there is one; if not, the configuration given to spatial_mask as it is.
C7_VoxelThenMaskThenGlobal ==
    cfg_pc = "resolved" =>
        LET voxel_key ==
                ToString(cfg_coord[1]) \o "-" \o ToString(cfg_coord[2]) \o "_line_fitting"
            mask_key == cfg_mask_name \o "_line_fitting"
        IN  /\ voxel_key \in DOMAIN cfg_fit_conf => input_conf = cfg_fit_conf[voxel_key]
            /\ (voxel_key \notin DOMAIN cfg_fit_conf /\ mask_key \in DOMAIN cfg_fit_conf)
                  => input_conf = cfg_fit_conf[mask_key]
            /\ (voxel_key \notin DOMAIN cfg_fit_conf /\ mask_key \notin DOMAIN cfg_fit_conf)
                  => input_conf = cfg_fit_conf

C7_Witness ==
    /\ cfg_pc = "resolved"
    /\ cfg_coord = <<1, 0>>
    /\ "1-0_line_fitting" \in DOMAIN cfg_fit_conf
    /\ (cfg_mask_name \o "_line_fitting") \in DOMAIN cfg_fit_conf
    /\ "default_line_fitting" \in DOMAIN cfg_fit_conf
    /\ cfg_fit_conf["1-0_line_fitting"] # cfg_fit_conf[cfg_mask_name \o "_line_fitting"]
    /\ input_conf = cfg_fit_conf["1-0_line_fitting"]

\* ======================================================================
\* Properties of import_line_kinematics (specification SpecKin)
\* ======================================================================
\* The children of the line that have a '_kinem' entry.
TiedChildren ==
    {c \in {ChildsList(line)[k] : k \in 1 .. Len(ChildsList(line))} :
        (c \o "_kinem") \in DOMAIN line_fit_conf}

ParentOf(c) == line_fit_conf[c \o "_kinem"]

\* |coef / 10^8 - num / den| <= 10^-6 * num / den, for wavelengths num, den.
WithinTolerance(coef, num, den) ==
    LET int_part == coef \div 100000000
        dec1 == (coef % 100000000) \div 10000
        dec2 == coef % 10000
        rem0 == num - int_part * den
    IN  /\ rem0 >= 0
        /\ rem0 <= den
        /\ LET rem1 == rem0 * 10000 - dec1 * den
           IN  /\ rem1 >= -den
               /\ rem1 <= den
               /\ LET rem2 == rem1 * 10000 - dec2 * den
                  IN  /\ rem2 <= 100 * num
                      /\ -rem2 <= 100 * num

\* C9 as stated: a '_kinem' entry naming a parent that is neither in the Log
\* nor a component of the line makes import_line_kinematics raise a
\* configuration error.
C9_UnresolvedTieRaisesConfigError ==
    (/\ kin_pc \in {"returned", "raised"}
     /\ \E c \in TiedChildren :
           /\ ParentOf(c) \notin DOMAIN log
           /\ ~InList(ParentOf(c), ChildsList(line)))
    => (kin_pc = "raised" /\ kin_error = "ConfigurationError")

\* C10: for a blended line, after import_line_kinematics, the center and the
\* sigma of a child whose '_kinem' entry names a component of the blend are
\* each the expression (lambda_child / lambda_parent, to 10^-6) times the same
\* parameter of the parent, with no fixed value, whether or not the parent is
\* in the Log.
C10_SiblingTieIsExpression ==
    (kin_pc = "returned" /\ line.blended_check) =>
        \A c \in TiedChildren :
            InList(ParentOf(c), ChildsList(line)) =>
                \A param_ext \in {"center", "sigma"} :
                    LET key == c \o "_" \o param_ext
                    IN  /\ key \in DOMAIN line_fit_conf
                        /\ DOMAIN line_fit_conf[key] = {"expr"}
                        /\ line_fit_conf[key].expr[2] = ParentOf(c) \o "_" \o param_ext
                        /\ WithinTolerance(line_fit_conf[key].expr[1],
                                           WTheo(c), WTheo(ParentOf(c)))

C10_Witness ==
    /\ kin_pc = "returned"
    /\ line.blended_check
    /\ \E c \in TiedChildren :
          /\ ParentOf(c) # c
          /\ InList(ParentOf(c), ChildsList(line))
          /\ ParentOf(c) \in DOMAIN log
          /\ (c \o "_center") \in DOMAIN line_fit_conf
          /\ "expr" \in DOMAIN line_fit_conf[c \o "_center"]

\* The children tied to a line of the Log that is not a component of the line.
ExternallyTied ==
    {c \in TiedChildren :
        /\ ParentOf(c) \in DOMAIN log
        /\ ~InList(ParentOf(c), ChildsList(line))}

\* C11: after import_line_kinematics (which band runs before the profile
\* fitting), a child tied to a line of the Log that is not a component of the
\* line has its center fixed (vary False) at
\* (lambda_child / lambda_parent) * center_parent / (1 + redshift) and its
\* sigma fixed at (lambda_child / lambda_parent) * sigma_parent, with no
\* redshift factor, from the parent's row of the Log; what the user had
\* configured for that parameter is gone.
C11_ExternalTieFixesValue ==
    kin_pc = "returned" =>
        \A c \in ExternallyTied :
            LET p == line_fit_conf[c \o "_kinem"]
                center == line_fit_conf[c \o "_center"]
                sigma == line_fit_conf[c \o "_sigma"]
            IN  /\ DOMAIN center = {"value", "vary"}
                /\ center.vary = FALSE
                /\ Reduced(center.value) =
                      Reduced(<<WTheo(c) * log[p].center * z_cor[2],
                                WTheo(p) * z_cor[1]>>)
                /\ DOMAIN sigma = {"value", "vary"}
                /\ sigma.vary = FALSE
                /\ Reduced(sigma.value) =
                      Reduced(<<WTheo(c) * log[p].sigma, WTheo(p)>>)

C11_Witness ==
    /\ kin_pc = "returned"
    /\ z_cor = <<11, 10>>
    /\ \E c \in ExternallyTied :
          /\ ParentOf(c) # c
          /\ (c \o "_sigma") \in DOMAIN user_fit_conf
          /\ user_fit_conf[c \o "_sigma"].vary
          /\ ~line_fit_conf[c \o "_sigma"].vary

\* ======================================================================
\* Properties of the Spectrum and Cube objects (specification SpecAttr)
\* ======================================================================
\* The number of dimensions of an argument of __init__, 0 if it is no array.
Rank(value) == IF value = None \/ value.kind # "ndarray" THEN 0 ELSE value.ndim

\* C17 as stated: an object is constructed only from a 1D wavelength array
\* and, a Spectrum, from 1D flux and uncertainty arrays or, a Cube, from 3D
\* flux and uncertainty arrays (the uncertainty may be left out); every other
\* rank and every input that is no array raises.
C17_WrongRanksRejected ==
    sp_pc = "built" =>
        /\ Rank(args.input_wave) = 1
        /\ Rank(args.input_flux) = IF lime_object = "Spectrum" THEN 1 ELSE 3
        /\ args.input_err # None =>
              Rank(args.input_err) = IF lime_object = "Spectrum" THEN 1 ELSE 3

\* The pixels of the input arrays that crop_waves keeps: those from the lower
\* limit up to, not including, the upper one (0 and -1 stand for the first
\* and the last wavelength); all of them without crop_waves.
KeptPixels ==
    IF args.crop_waves = <<>> THEN DOMAIN InputWave
    ELSE LET lo == IF args.crop_waves[1] = 0 THEN InputWave[1] ELSE args.crop_waves[1]
             hi == IF args.crop_waves[2] = -1 THEN InputWave[Len(InputWave)]
                   ELSE args.crop_waves[2]
         IN  {k \in DOMAIN InputWave : lo <= InputWave[k] /\ InputWave[k] < hi}

\* The kept pixels of an input, in order.
KeptOf(values) ==
    LET first == CHOOSE k \in KeptPixels : \A l \in KeptPixels : k <= l
    IN  [k \in 1 .. Cardinality(KeptPixels) |-> values[first + k - 1]]

\* wave_rest * (1 + redshift) = wave, element by element.
WaveRestIsWaveOverRedshift ==
    /\ DOMAIN spec_wave_rest.data = DOMAIN spec_wave.data
    /\ \A k \in DOMAIN spec_wave.data :
          LET wr == spec_wave_rest.data[k]
              w == spec_wave.data[k]
              z == spec_redshift
          IN  wr[1] * (z[2] + z[1]) * w[2] = w[1] * z[2] * wr[2]

\* C18 as stated: on a Spectrum, after construction and any calls of
\* unit_conversion and udpate_redshift, wave_rest = wave / (1 + redshift)
\* element by element, and wave is the input wavelength array as long as no
\* unit conversion was made.
C18_WaveRestAndInputWave ==
    (sp_pc = "built" /\ lime_object = "Spectrum") =>
        /\ WaveRestIsWaveOverRedshift
        /\ ~given.converted =>
              /\ Len(spec_wave.data) = Len(InputWave)
              /\ \A k \in DOMAIN InputWave :
                    spec_wave.data[k][1] = InputWave[k] * spec_wave.data[k][2]

\* C18 amended: the same, with wave equal to the input wavelengths that
\* crop_waves keeps.
C18_WaveRestAndKeptInputWave ==
    (sp_pc = "built" /\ lime_object = "Spectrum") =>
        /\ WaveRestIsWaveOverRedshift
        /\ ~given.converted =>
              /\ Len(spec_wave.data) = Cardinality(KeptPixels)
              /\ \A k \in DOMAIN spec_wave.data :
                    spec_wave.data[k][1] = KeptOf(InputWave)[k] * spec_wave.data[k][2]

C18_Witness ==
    /\ sp_pc = "built"
    /\ lime_object = "Spectrum"
    /\ n_calls = MaxCalls
    /\ args.crop_waves # <<>>
    /\ IsMasked(spec_mask)
    /\ spec_redshift # args.redshift
    /\ spec_redshift # <<0, 1>>
    /\ ~given.converted

\* stored * norm_flux = input, element by element.
TimesNormIs(stored, values) ==
    /\ Len(stored.data) = Len(values)
    /\ \A k \in DOMAIN values :
          stored.data[k][1] * spec_norm_flux[1] =
              values[k] * stored.data[k][2] * spec_norm_flux[2]

\* C19 as stated: on a Spectrum, after construction and any calls of
\* unit_conversion(norm_flux=...) and udpate_redshift, flux * norm_flux and
\* err_flux * norm_flux are the input flux and uncertainty, and norm_flux and
\* redshift are the last values given.
C19_FluxTimesNormIsInput ==
    (sp_pc = "built" /\ lime_object = "Spectrum") =>
        /\ TimesNormIs(spec_flux, InputFlux)
        /\ spec_err_flux # None => TimesNormIs(spec_err_flux, InputErr)
        /\ spec_norm_flux = given.norm_flux
        /\ spec_redshift = given.redshift

\* C19 amended: the same for the pixels of the inputs that crop_waves keeps.
C19_FluxTimesNormIsKeptInput ==
    (sp_pc = "built" /\ lime_object = "Spectrum") =>
        /\ TimesNormIs(spec_flux, KeptOf(InputFlux))
        /\ spec_err_flux # None => TimesNormIs(spec_err_flux, KeptOf(InputErr))
        /\ spec_norm_flux = given.norm_flux
        /\ spec_redshift = given.redshift

C19_Witness ==
    /\ sp_pc = "built"
    /\ lime_object = "Spectrum"
    /\ n_calls = MaxCalls
    /\ args.crop_waves = <<4, 10>>
    /\ spec_err_flux # None
    /\ args.norm_flux = <<2, 1>>
    /\ spec_norm_flux = <<4, 1>>
    /\ spec_redshift # args.redshift

\* ======================================================================
\* Properties of continuum (specification SpecCont)
\* ======================================================================
\* The iterations whose polynomial degree exceeded the number of samples left
\* to fit.
DegreeExceedsSamples ==
    {k \in DOMAIN cont_samples : degree_list[k] > cont_samples[k]}

\* C16 as stated: when the degree of some iteration exceeds the number of
\* usable samples, continuum returns without raising and leaves the continuum
\* all NaN, whatever plot_steps and whichever the iteration.
C16_DegreeAboveSamplesGivesNaN ==
    (cont_pc \in {"returned", "raised"} /\ DegreeExceedsSamples # {})
        => (cont_pc = "returned" /\ spec_cont = [kind |-> "nan"])

\* ======================================================================
\* Properties of band (specification SpecBand)
\* ======================================================================
\* review_bands was called by the last call: define_masks returned.
Reviewed == band_out # NoOut

\* The line band and the continuum bands of the last call: their pixels and
\* those the mask of the spectrum leaves valid.
EmisBand ==
    [size |-> Size(band_out.idcsEmis), valid |-> Valid(band_out.idcsEmis, spec_mask)]
ContBand ==
    [size |-> Size(band_out.idcsCont), valid |-> Valid(band_out.idcsCont, spec_mask)]

Diagnosed == band_line.observations # "no"

\* C14: whenever the band check runs it does not raise, and when the line
\* band has at most one valid pixel, or the line band keeps under half of its
\* pixels, or the continuum bands keep under half of theirs, the observation
\* string of the line holds a diagnostic afterwards.
C14_DiagnosticInEachCase ==
    Reviewed =>
        /\ band_error # "ZeroDivisionError"
        /\ (\/ EmisBand.valid <= 1
            \/ 2 * EmisBand.valid < EmisBand.size
            \/ 2 * ContBand.valid < ContBand.size) => Diagnosed

\* The row of a label in the Log, <<>> without one.
RowsOf(label) == SelectSeq(spec_log, LAMBDA row : row.label = label)

\* C13: a band call on a line whose line band has no valid pixel returns
\* without raising and leaves a row of the line in the Log whose flux is NaN
\* and whose observation string holds a diagnostic.
C13_FullyMaskedBandGivesNaNRow ==
    (Reviewed /\ EmisBand.valid = 0) =>
        /\ band_error = "none"
        /\ RowsOf(band_line.label) # <<>>
        /\ \A k \in DOMAIN RowsOf(band_line.label) :
              /\ RowsOf(band_line.label)[k].intg_flux = NaNArray
              /\ RowsOf(band_line.label)[k].observations \notin {"no", ""}

\* The band edges of the last call in the observed frame lie within the
\* wavelengths of the spectrum.
EdgesInRange ==
    \A k \in 1 .. 6 :
        Within(QMul(Q(band_line.mask[k]), QAdd(Q(1), spec_redshift)),
               spec_wave.data[1], spec_wave.data[Len(spec_wave.data)])

\* C15: for band edges inside the range of the spectrum no pixel is in both
\* the line band and the continuum bands, neither holds a pixel the validity
\* mask excludes, and the pixels given to the fit are those of either, no more
\* than the spectrum has.
C15_BandsDisjointUnionFitted ==
    (Reviewed /\ band_error = "none" /\ EdgesInRange) =>
        /\ \A k \in DOMAIN band_out.idcsEmis :
              ~(band_out.idcsEmis[k] /\ band_out.idcsCont[k])
        /\ \A k \in band_line.pixel_mask :
              ~band_out.idcsEmis[k] /\ ~band_out.idcsCont[k]
        /\ band_out.idcsLine =
              [k \in DOMAIN band_out.idcsEmis |->
                  band_out.idcsEmis[k] \/ band_out.idcsCont[k]]
        /\ Size(band_out.idcsLine) <= Len(spec_wave.data)

\* ======================================================================
\* Properties of the Log and of the arrays (specification SpecLog)
\* ======================================================================
Keys(lg) == {lg[k].label : k \in DOMAIN lg}

NoKeyTwice(lg) == \A k1, k2 \in DOMAIN lg : lg[k1].label = lg[k2].label => k1 = k2

\* A call of band that returns, on a line whose rows are all in the Log.
RepeatBand ==
    /\ Band
    /\ band_error' = "none"
    /\ \A k \in DOMAIN ListComps(band_line'.label) :
          ListComps(band_line'.label)[k] \in Keys(spec_log)

\* A call of frame that returns, all the rows of its lines being in the Log.
RepeatFrame ==
    /\ FrameCall
    /\ band_error' = "none"
    /\ band_line' # NoLine
    /\ \A l \in DOMAIN bands_df : \A k \in DOMAIN ListComps(l) :
          ListComps(l)[k] \in Keys(spec_log)

\* C12: after every call of band or frame no label has two rows in the Log,
\* and a call that measures only labels which have a row leaves the set of
\* labels and the number of rows as they were.
C12_RepeatReplacesRow ==
    [][/\ NoKeyTwice(spec_log')
       /\ (RepeatBand \/ RepeatFrame) =>
             /\ Keys(spec_log') = Keys(spec_log)
             /\ Len(spec_log') = Len(spec_log)]_vars

\* Rows were written over rows: more rows were written than the Log holds.
C12_Witness ==
    /\ lime_object = "Spectrum"
    /\ band_error = "none"
    /\ spec_log # <<>>
    /\ n_written > Len(spec_log)

\* C20: no call of band or frame on a Spectrum and no pass of spatial_mask
\* over a voxel of a Cube changes the wavelengths, the flux, the uncertainty,
\* the mask, the redshift or the normalisation of the object; a pass over a
\* voxel leaves the log of the Cube alone as well.
C20_ArraysReadOnly ==
    [][/\ UNCHANGED <<spec_wave, spec_wave_rest, spec_flux, spec_err_flux, spec_mask,
                      spec_redshift, spec_norm_flux, spec_units_wave>>
       /\ lime_object = "Cube" => UNCHANGED spec_log]_vars

\* frame measured the lines of a voxel of a Cube with an uncertainty array.
C20_Witness ==
    /\ lime_object = "Cube"
    /\ spec_err_flux # None
    /\ band_error = "none"
    /\ spaxel_log # <<>>
    /\ n_written > 0

\* The flux of the voxel of the last pass, summed over the pixels of a row.
OwnFlux(row) ==
    QMul(SumOver(spec_flux.data[spaxel_coord], row.intg_flux.over), spec_norm_flux)

\* C21: the log of the spectrum of a voxel holds no row but those measured
\* from the flux of that voxel, whatever the voxels processed before it and
\* the lines measured in them.
C21_VoxelLogHoldsOwnRows ==
    lime_object = "Cube" =>
        \A k \in DOMAIN spaxel_log :
            \/ spaxel_log[k].intg_flux = NaNArray
            \/ spaxel_log[k].intg_flux.value = OwnFlux(spaxel_log[k])

\* A voxel in which one line was measured, after passes that wrote more rows.
C21_Witness ==
    /\ lime_object = "Cube"
    /\ band_error = "none"
    /\ Len(spaxel_log) = 1
    /\ spaxel_log[1].intg_flux # NaNArray
    /\ n_written > 2

\* ======================================================================
\* Properties of the container of spatial_mask (specification Spec)
\* ======================================================================
\* C28: no two extensions of the container in memory have the same name,
\* whichever voxels the masks select.
C28_ExtensionNamesDiffer ==
    \A k1, k2 \in DOMAIN hdul_log : hdul_log[k1] = hdul_log[k2] => k1 = k2

IsPrefix(a, b) == Len(a) <= Len(b) /\ \A k \in DOMAIN a : a[k] = b[k]

\* The extensions of the voxels processed so far, in the order of processing.
ProcessedExts == [k \in DOMAIN processed |-> ExtName(<<processed[k][2], processed[k][3]>>)]

\* C29: the file holds at all times the primary HDU and the extensions of
\* the first voxels processed, in the order of processing, and every save
\* leaves in the file what the save before it wrote, in the same places.
C29_FlushesMonotone ==
    /\ [](disk # <<>> => /\ disk[1] = "PRIMARY"
                         /\ IsPrefix(disk, hdul_log)
                         /\ IsPrefix(VoxelExts(disk), ProcessedExts))
    /\ [][IsPrefix(disk, disk')]_vars

\* A save that found in the file the extensions of an earlier save and added
\* to them: the file holds more voxels than the first of two masks selects.
C29_Witness ==
    /\ Len(mask_list) = 2
    /\ Len(spaxels_dict[1]) >= 1
    /\ Len(VoxelExts(disk)) > Len(spaxels_dict[1])

\* ======================================================================
\* Properties of the arrays of an object (specification SpecAttr)
\* ======================================================================
\* The length of an array along the wavelength axis.
AxisLen(a) ==
    IF a.ndim = 1 THEN Len(a.data)
    ELSE Len(a.data[CHOOSE c \in DOMAIN a.data : TRUE])

\* C25: right after the construction of a Spectrum or a Cube, whatever
\* crop_waves was, the flux, the uncertainty if there is one and the pixel mask
\* if there is one are as long along the wavelength axis as the wavelengths,
\* and so is the rest-frame wavelength array.
C25_ParallelArraysSameLength ==
    (sp_pc = "built" /\ n_calls = 0) =>
        /\ AxisLen(spec_flux) = AxisLen(spec_wave)
        /\ AxisLen(spec_wave_rest) = AxisLen(spec_wave)
        /\ spec_err_flux # None => AxisLen(spec_err_flux) = AxisLen(spec_wave)
        /\ spec_mask # NoMask => Len(spec_mask) = AxisLen(spec_wave)

\* A Spectrum with an uncertainty and a pixel mask, cropped to a range that
\* ends inside its wavelengths.
C25_Witness ==
    /\ sp_pc = "built"
    /\ n_calls = 0
    /\ lime_object = "Spectrum"
    /\ args.crop_waves = <<4, 10>>
    /\ spec_err_flux # None
    /\ spec_mask # NoMask
    /\ AxisLen(spec_wave) < Len(InputWave)

\* C30: a call of unit_conversion on a Spectrum with units that are not
\* recognised returns: no call on a built object ends with a local variable
\* read before its assignment.
C30_UnknownUnitOnlyWarns ==
    sp_pc = "built" => sp_error # "UnboundLocalError"

\* ======================================================================
\* Properties of the iterations of continuum (specification SpecCont)
\* ======================================================================
\* The samples unmasked when the call started.
UnmaskedAtCall ==
    IF IsMasked(spec_mask) THEN [k \in DOMAIN spec_mask |-> ~spec_mask[k]]
    ELSE [k \in DOMAIN spec_flux.data |-> TRUE]

Ended == cont_pc \in {"returned", "raised"}

\* Each iteration starts from the samples the one before it left, the first
\* from those of the spectrum, and its limits unmask no sample.
MaskNeverGrows ==
    \A k \in DOMAIN cont_masks :
        /\ cont_masks[k].start =
              (IF k = 1 THEN UnmaskedAtCall ELSE cont_masks[k - 1].limits)
        /\ \A p \in DOMAIN cont_masks[k].limits :
              cont_masks[k].limits[p] => cont_masks[k].start[p]

Documented(p) ==
    CASE p = "flux" -> "flux sum"
      [] p = "SN_line" -> "emission line S/N"
      [] p = "SN_cont" -> "continuum S/N"

\* C22: the image of the masks is computed as the documentation of param
\* says, the sum of the flux for 'flux', the emission-line signal-to-noise for
\* 'SN_line' and the continuum signal-to-noise for 'SN_cont'; with any other
\* param, or with percentiles that do not strictly increase, the call raises
\* Error with no image computed, no mask made and no file written.
C22_ParamSelectsCalculation ==
    /\ param_image # None => param_image.kind = Documented(param)
    /\ (sm_pc \notin {"off", "call"} /\ ~InputsAccepted) =>
          /\ sm_pc = "raised"
          /\ sm_error = "Error"
          /\ param_image = None
          /\ mask_hdul = <<>>
          /\ mask_file = <<>>

\* ======================================================================
\* Properties of the band editor (specification SpecEditor)
\* ======================================================================
\* The edges of the line whose cell the pointer is in: the cells are laid out
\* in the order of the rows.
CursorEdges == self_log[self_ax].w
SelLow(w_low) == RestFrame(w_low, self_rest_frame, self_redshift)
SelHigh(w_high) == RestFrame(w_high, self_rest_frame, self_redshift)
InsideLineRange(w_low, w_high) ==
    QLess(CursorEdges[2], SelLow(w_low)) /\ QLess(SelHigh(w_high), CursorEdges[5])
BelowLine(w_high) == QLess(SelHigh(w_high), CursorEdges[3])
AboveLine(w_low) == QLess(CursorEdges[4], SelLow(w_low))

\* C26: a selection strictly between w2 and w5 becomes the new w3 and w4 and
\* changes no other edge; w1 and w2 change only for a selection that is not
\* inside (w2, w5) and lies entirely below w3, w5 and w6 only for one entirely
\* above w4; the change is written to the row of the line under the cursor
\* and to no other row.
C26_SelectionSetsBandOfCursorLine ==
    [][\A w_low \in PlotWaves : \A w_high \in PlotWaves :
          (w_low < w_high /\ SelectMI(w_low, w_high)) =>
             LET old == CursorEdges
                 new == self_log'[self_ax].w
             IN  /\ self_log' = [self_log EXCEPT ![self_ax].w = new]
                 /\ InsideLineRange(w_low, w_high) =>
                       new = [old EXCEPT ![3] = SelLow(w_low), ![4] = SelHigh(w_high)]
                 /\ (new[1] # old[1] \/ new[2] # old[2]) =>
                       ~InsideLineRange(w_low, w_high) /\ BelowLine(w_high)
                 /\ (new[5] # old[5] \/ new[6] # old[6]) => AboveLine(w_low)]_vars

NonDecreasing(w) == \A k \in 1 .. (Len(w) - 1) : ~QLess(w[k + 1], w[k])

\* C27: the six edges of every line stay non-decreasing under any sequence of
\* selections; a selection that matches no rule, or that spans from below w1
\* to above w6, leaves the edges and the set of lines as they were.
C27_EdgesStayOrdered ==
    /\ [](\A k \in DOMAIN self_log : NonDecreasing(self_log[k].w))
    /\ [][\A w_low \in PlotWaves : \A w_high \in PlotWaves :
             (/\ w_low < w_high
              /\ SelectMI(w_low, w_high)
              /\ \/ ~(InsideLineRange(w_low, w_high) \/ BelowLine(w_high) \/ AboveLine(w_low))
                 \/ /\ QLess(SelLow(w_low), CursorEdges[1])
                    /\ QLess(CursorEdges[6], SelHigh(w_high)))
             => self_log' = self_log]_vars

====
